---- MODULE Spec2Model ----
(***************************************************************************)
(* GEDCOM person / family builders (src/gedcom/people.py,                  *)
(* src/gedcom/families.py): the record-at-a-time ingestion state machines, *)
(* the eager marriage-date check, the two validate() passes and the shared *)
(* message sink.                                                           *)
(***************************************************************************)
EXTENDS Integers, Sequences, FiniteSets, TLC

VARIABLES
    individuals,          \* People.individuals: person id -> person
    curr_person,          \* People._curr_person: <<>> (None) or <<person>>
    curr_person_stored,   \* TRUE iff _curr_person is the object held in individuals
    p_current_level_1,    \* People._current_level_1
    families,             \* Families.families: family id -> family dict
    curr_family,          \* Families._curr_family: <<>> (None) or <<family>>
    curr_family_stored,   \* TRUE iff _curr_family is the object held in families
    f_current_level_1,    \* Families._current_level_1
    msgs,                 \* ValidationMessages: the sequence of findings
    err,                  \* outcome of the last call: NoErr or the exception raised
    last,                 \* the last call: which builder, and its record
    nrec,                 \* number of records handed to the builders so far
    individuals_keys,     \* People.individuals.keys(): ids in insertion order
    families_keys,        \* Families.families.keys(): ids in insertion order
    p_families,           \* People._families: None or the wired family builder
    p_current_time,       \* People._current_time: <<ordinal>> of the instant
    clock,                \* datetime.now(): <<ordinal>> of the wall clock
    script,               \* the record sequence a scripted run ingests
    calls,                \* the engine calls made in the current run
    first_run             \* <<>> or <<outcome of the run before this one>>

vars == <<individuals, curr_person, curr_person_stored, p_current_level_1,
          families, curr_family, curr_family_stored, f_current_level_1,
          msgs, err, last, nrec, individuals_keys, families_keys,
          p_families, p_current_time, clock, script, calls, first_run>>

-----------------------------------------------------------------------------
(* Bounds *)

MaxRecords == 4        \* records ingested in one behaviour of Spec
MaxFamRecords == 6     \* records ingested in one behaviour of SpecFam
MaxPasses == 2         \* validate() calls in one behaviour of SpecFamVal
MaxDeepRecords == 3    \* records below level 1 in one script of SpecDates
MaxCalls == 3          \* engine calls in one run of SpecPplVal
MaxRunCalls == 2       \* engine calls in each of the two runs of SpecRerun
MaxPipelineRecords == 4  \* records ingested in one behaviour of SpecPipeline
MaxPipelineCalls == 2    \* engine calls in one behaviour of SpecPipeline

-----------------------------------------------------------------------------
(* Python values *)

None == "None"         \* None in a string-valued slot (ids, names, context)
NoDate == <<>>         \* None in a datetime-valued slot; a datetime is <<ordinal>>
NoObj == <<>>          \* None in an object-valued slot; an object is <<fields>>

NoErr == [exc |-> "none", line |-> 0, file |-> "none"]
Raise(exc, file, line) == [exc |-> exc, line |-> line, file |-> file]

-----------------------------------------------------------------------------
(* datetime.strptime(args, '%d %b %Y')                                     *)

Chr(s, i) == SubSeq(s, i, i)

Digits == {"0", "1", "2", "3", "4", "5", "6", "7", "8", "9"}

DigitVal(c) ==
    CASE c = "0" -> 0 [] c = "1" -> 1 [] c = "2" -> 2 [] c = "3" -> 3
      [] c = "4" -> 4 [] c = "5" -> 5 [] c = "6" -> 6 [] c = "7" -> 7
      [] c = "8" -> 8 [] c = "9" -> 9

IsDigits(tok) == Len(tok) > 0 /\ \A i \in 1..Len(tok) : Chr(tok, i) \in Digits

RECURSIVE ToIntFrom(_, _, _)
ToIntFrom(tok, i, acc) ==
    IF i > Len(tok) THEN acc
    ELSE ToIntFrom(tok, i + 1, acc * 10 + DigitVal(Chr(tok, i)))

ToInt(tok) == ToIntFrom(tok, 1, 0)

\* the format's single blank matches a run of whitespace
RECURSIVE SplitFrom(_, _, _)
SplitFrom(s, i, cur) ==
    IF i > Len(s) THEN (IF cur = "" THEN <<>> ELSE <<cur>>)
    ELSE IF Chr(s, i) = " "
         THEN (IF cur = "" THEN SplitFrom(s, i + 1, "")
               ELSE <<cur>> \o SplitFrom(s, i + 1, ""))
         ELSE SplitFrom(s, i + 1, cur \o Chr(s, i))

Tokens(s) == SplitFrom(s, 1, "")

\* %b is matched case-insensitively
UpperChar(c) ==
    CASE c = "a" -> "A" [] c = "b" -> "B" [] c = "c" -> "C" [] c = "d" -> "D"
      [] c = "e" -> "E" [] c = "f" -> "F" [] c = "g" -> "G" [] c = "h" -> "H"
      [] c = "i" -> "I" [] c = "j" -> "J" [] c = "k" -> "K" [] c = "l" -> "L"
      [] c = "m" -> "M" [] c = "n" -> "N" [] c = "o" -> "O" [] c = "p" -> "P"
      [] c = "q" -> "Q" [] c = "r" -> "R" [] c = "s" -> "S" [] c = "t" -> "T"
      [] c = "u" -> "U" [] c = "v" -> "V" [] c = "w" -> "W" [] c = "x" -> "X"
      [] c = "y" -> "Y" [] c = "z" -> "Z" [] OTHER -> c

RECURSIVE UpperFrom(_, _)
UpperFrom(s, i) ==
    IF i > Len(s) THEN "" ELSE UpperChar(Chr(s, i)) \o UpperFrom(s, i + 1)

Upper(s) == UpperFrom(s, 1)

MonthAbbr == <<"JAN", "FEB", "MAR", "APR", "MAY", "JUN",
               "JUL", "AUG", "SEP", "OCT", "NOV", "DEC">>

IsMonth(tok) == \E m \in 1..12 : MonthAbbr[m] = Upper(tok)
MonthNum(tok) == CHOOSE m \in 1..12 : MonthAbbr[m] = Upper(tok)

IsLeap(y) == y % 4 = 0 /\ (y % 100 # 0 \/ y % 400 = 0)

DaysInMonth(y, m) ==
    IF m = 2 THEN (IF IsLeap(y) THEN 29 ELSE 28)
    ELSE IF m \in {4, 6, 9, 11} THEN 30 ELSE 31

RECURSIVE DaysBeforeMonth(_, _)
DaysBeforeMonth(y, m) ==
    IF m = 1 THEN 0 ELSE DaysBeforeMonth(y, m - 1) + DaysInMonth(y, m - 1)

DaysBeforeYear(y) ==
    (y - 1) * 365 + (y - 1) \div 4 - (y - 1) \div 100 + (y - 1) \div 400

\* proleptic Gregorian ordinal of a calendar date: the order of datetimes
Ordinal(y, m, d) == DaysBeforeYear(y) + DaysBeforeMonth(y, m) + d

\* TRUE iff strptime returns; otherwise it raises ValueError
strptime_ok(s) ==
    /\ Len(s) > 0
    /\ Chr(s, 1) # " "
    /\ Chr(s, Len(s)) # " "
    /\ LET t == Tokens(s) IN
        /\ Len(t) = 3
        /\ Len(t[1]) \in {1, 2} /\ IsDigits(t[1]) /\ ToInt(t[1]) \in 1..31
        /\ IsMonth(t[2])
        /\ Len(t[3]) = 4 /\ IsDigits(t[3]) /\ ToInt(t[3]) >= 1
        /\ ToInt(t[1]) <= DaysInMonth(ToInt(t[3]), MonthNum(t[2]))

\* the datetime strptime returns, as <<ordinal>>
strptime(s) ==
    LET t == Tokens(s) IN <<Ordinal(ToInt(t[3]), MonthNum(t[2]), ToInt(t[1]))>>

\* the DATE argument strings of the input records
GoodDates == {"1 JAN 2000", "15 JUN 2000"}
BadDates == {"31 FEB 2000"}

\* the dates of the scripted scenarios, in ascending order
ScenDates == {"1 JAN 2000", "15 JUN 2000", "31 DEC 2000"}

\* the instants an engine is constructed at, and the birth and death dates
\* around them: 150 years before an instant, one day more, a day that is
\* in the future of the first instant only, a death before every birth
Nows == {"15 JAN 2026", "16 JAN 2026", "4 NOV 2026"}
BirthDates == {"15 JAN 1876", "14 JAN 1876", "4 NOV 1876", "3 NOV 1876",
               "16 JAN 2026"}
DeathDates == {"1 JAN 1870", "16 JAN 2026"}

\* strptime over the input strings, evaluated once: <<>> where it raises
DateTable ==
    [s \in GoodDates \cup BadDates \cup ScenDates \cup Nows \cup BirthDates
            \cup DeathDates |->
        IF strptime_ok(s) THEN strptime(s) ELSE <<>>]

\* datetime.strptime(data["args"], '%d %b %Y') at the call sites
parse_ok(s) == DateTable[s] # <<>>
parse(s) == DateTable[s]

-----------------------------------------------------------------------------
(* ValidationMessages: the shared, ordered sink of findings               *)

\* the finding put in front of the findings already in the sink
add_message_prepend(sink, error_id, user_story, user_id, name, message) ==
    <<[error_id |-> error_id, user_story |-> user_story,
       user_id |-> user_id, name |-> name, message |-> message]>> \o sink

\* the sink keeping the latest finding only
add_message_latest_only(sink, error_id, user_story, user_id, name, message) ==
    <<[error_id |-> error_id, user_story |-> user_story,
       user_id |-> user_id, name |-> name, message |-> message]>>

\* ValidationMessages.add_message(error_id, user_story, user_id, name, message)
\* a sink that takes a finding only while it is empty
add_message_first_only(sink, error_id, user_story, user_id, name, message) ==
    IF sink # <<>> THEN sink
    ELSE <<[error_id |-> error_id, user_story |-> user_story,
            user_id |-> user_id, name |-> name, message |-> message]>>

add_message(sink, error_id, user_story, user_id, name, message) ==
    Append(sink, [error_id |-> error_id, user_story |-> user_story,
                  user_id |-> user_id, name |-> name, message |-> message])

People_CLASS_IDENTIFIER == "INDIVIDUAL"
Families_CLASS_IDENTIFIER == "FAMILY"

-----------------------------------------------------------------------------
(* sorted(dict.keys()): ascending order of the identifier strings          *)

UpperLetters == "ABCDEFGHIJKLMNOPQRSTUVWXYZ"

\* ord(c) for the characters of an identifier: "@", digits, capital letters
CharCode(c) ==
    IF c \in Digits THEN 48 + DigitVal(c)
    ELSE IF c = "@" THEN 64
    ELSE 64 + (CHOOSE i \in 1..26 : Chr(UpperLetters, i) = c)

\* a < b for strings: the first differing character decides, a proper
\* prefix is smaller
RECURSIVE StrLessFrom(_, _, _)
StrLessFrom(a, b, i) ==
    IF i > Len(b) THEN FALSE
    ELSE IF i > Len(a) THEN TRUE
    ELSE IF Chr(a, i) = Chr(b, i) THEN StrLessFrom(a, b, i + 1)
    ELSE CharCode(Chr(a, i)) < CharCode(Chr(b, i))

StrLess(a, b) == StrLessFrom(a, b, 1)

\* the keys taken in the order they were inserted, unsorted
sorted_not(keys) == keys

\* the keys in descending order
RECURSIVE sorted_descending(_)
sorted_descending(keys) ==
    IF keys = <<>> THEN <<>>
    ELSE LET i == CHOOSE j \in 1..Len(keys) :
                    \A k \in 1..Len(keys) : ~StrLess(keys[j], keys[k])
         IN  <<keys[i]>> \o
             sorted_descending(SubSeq(keys, 1, i - 1) \o SubSeq(keys, i + 1, Len(keys)))

\* sorted(keys): the smallest key first, then the rest sorted
RECURSIVE sorted(_)
sorted(keys) ==
    IF keys = <<>> THEN <<>>
    ELSE LET i == CHOOSE j \in 1..Len(keys) :
                    \A k \in 1..Len(keys) : ~StrLess(keys[k], keys[j])
         IN  <<keys[i]>> \o
             sorted(SubSeq(keys, 1, i - 1) \o SubSeq(keys, i + 1, Len(keys)))

\* the elements of a set as a sequence, in some order
RECURSIVE KeySeq(_)
KeySeq(S) ==
    IF S = {} THEN <<>>
    ELSE LET k == CHOOSE x \in S : TRUE IN <<k>> \o KeySeq(S \ {k})

-----------------------------------------------------------------------------
(* dict.setdefault(key, value): keeps the value already stored under key   *)

\* a plain item assignment instead of setdefault: the new value replaces
\* the stored one
setdefault_overwrite(map, key, value) ==
    [k \in DOMAIN map \cup {key} |-> IF k = key THEN value ELSE map[k]]

setdefault(map, key, value) ==
    IF key \in DOMAIN map THEN map
    ELSE [k \in DOMAIN map \cup {key} |-> IF k = key THEN value ELSE map[k]]

\* the context cleared by level-0 records only
ClearContext_level0(level, context) == IF level < 1 THEN None ELSE context

\* "if data['level'] < 2: self._current_level_1 = None"
ClearContext(level, context) == IF level < 2 THEN None ELSE context

\* the validity flag ignored
IsRejected_never(data) == FALSE

\* "if data['valid'] == 'N': raise ValueError"
IsRejected(data) == data.valid = "N"

-----------------------------------------------------------------------------
(* Families                                                                *)

\* the dict a FAM record builds; "married"/"divorced" are keys that exist
\* only once set to True, modelled as FALSE while absent
NewFamily(id) ==
    [id |-> id, children |-> <<>>, husband_id |-> None, wife_id |-> None,
     married_date |-> NoDate, divorced_date |-> NoDate,
     married |-> FALSE, divorced |-> FALSE]

\* the family builder's state as one value
FamState ==
    [families |-> families, curr |-> curr_family, stored |-> curr_family_stored,
     level_1 |-> f_current_level_1, msgs |-> msgs, err |-> NoErr]

\* an item assignment on self._curr_family: it reaches the mapping only when
\* _curr_family is the object the mapping holds
\* an item assignment that lands on every dict of the mapping
SetCurrFamily_all(s, f) ==
    [s EXCEPT !.curr = <<f>>,
              !.families = IF s.stored
                           THEN [k \in DOMAIN @ |-> [f EXCEPT !.id = k]] ELSE @]

SetCurrFamily(s, f) ==
    [s EXCEPT !.curr = <<f>>,
              !.families = IF s.stored THEN [@ EXCEPT ![f.id] = f] ELSE @]

FamRaise(s, exc, line) == [s EXCEPT !.err = Raise(exc, "families.py", line)]

\* married_date < individuals[id]['birth_date'] for one spouse:
\* "KeyError" when id is not a key, "TypeError" when the birth date is None,
\* "fail" when the comparison is true, "pass" otherwise
SpouseCheck(people, id, married_date) ==
    IF id \notin DOMAIN people THEN "KeyError"
    ELSE IF people[id].birth_date = NoDate THEN "TypeError"
    ELSE IF married_date[1] < people[id].birth_date[1] THEN "fail"
    ELSE "pass"

US02Message == "Birth date should occur before marriage of an individual"

\* the eager check without the short circuit: the wife is examined also
\* when the husband has failed
is_valid_married_date_both(people, family, sink, married_date) ==
    LET h == SpouseCheck(people, family.husband_id, married_date)
        w == SpouseCheck(people, family.wife_id, married_date)
        finding(to, id) == add_message(to, People_CLASS_IDENTIFIER, "US02",
                                       people[id].id, people[id].name, US02Message)
        after_h == IF h = "fail" THEN finding(sink, family.husband_id) ELSE sink
    IN  IF h \in {"KeyError", "TypeError"}
        THEN [ok |-> FALSE, msgs |-> sink, err |-> Raise(h, "families.py", 89)]
        ELSE IF w \in {"KeyError", "TypeError"}
        THEN [ok |-> FALSE, msgs |-> sink, err |-> Raise(w, "families.py", 96)]
        ELSE IF w = "fail"
        THEN [ok |-> FALSE, msgs |-> finding(after_h, family.wife_id), err |-> NoErr]
        ELSE [ok |-> h = "pass", msgs |-> after_h, err |-> NoErr]

\* Families._is_valid_married_date: [ok, msgs, err]
is_valid_married_date(people, family, sink, married_date) ==
    LET h == SpouseCheck(people, family.husband_id, married_date)
        w == SpouseCheck(people, family.wife_id, married_date)
        finding(id) == add_message(sink, People_CLASS_IDENTIFIER, "US02",
                                   people[id].id, people[id].name, US02Message)
    IN  IF h \in {"KeyError", "TypeError"}
        THEN [ok |-> FALSE, msgs |-> sink, err |-> Raise(h, "families.py", 89)]
        ELSE IF h = "fail"
        THEN [ok |-> FALSE, msgs |-> finding(family.husband_id), err |-> NoErr]
        ELSE IF w \in {"KeyError", "TypeError"}
        THEN [ok |-> FALSE, msgs |-> sink, err |-> Raise(w, "families.py", 96)]
        ELSE IF w = "fail"
        THEN [ok |-> FALSE, msgs |-> finding(family.wife_id), err |-> NoErr]
        ELSE [ok |-> TRUE, msgs |-> sink, err |-> NoErr]

\* "if data['tag'] == 'FAM'": a fresh dict becomes current; the mapping keeps
\* the dict it already has for that id
FamTagFAM(s, data) ==
    [s EXCEPT !.curr = <<NewFamily(data.args)>>,
              !.stored = data.args \notin DOMAIN s.families,
              !.families = setdefault(s.families, data.args, NewFamily(data.args))]

FamTagMARR(s, data) ==
    IF s.curr = NoObj THEN FamRaise(s, "TypeError", 57)
    ELSE [SetCurrFamily(s, [s.curr[1] EXCEPT !.married = TRUE,
                                             !.married_date = NoDate])
            EXCEPT !.level_1 = "MARR"]

\* DIV taking the married flag back
FamTagDIV_unmarries(s, data) ==
    IF s.curr = NoObj THEN FamRaise(s, "TypeError", 62)
    ELSE [SetCurrFamily(s, [s.curr[1] EXCEPT !.divorced = TRUE,
                                             !.married = FALSE,
                                             !.divorced_date = NoDate])
            EXCEPT !.level_1 = "DIV"]

FamTagDIV(s, data) ==
    IF s.curr = NoObj THEN FamRaise(s, "TypeError", 62)
    ELSE [SetCurrFamily(s, [s.curr[1] EXCEPT !.divorced = TRUE,
                                             !.divorced_date = NoDate])
            EXCEPT !.level_1 = "DIV"]

FamTagHUSB(s, data) ==
    IF s.curr = NoObj THEN FamRaise(s, "TypeError", 67)
    ELSE [SetCurrFamily(s, [s.curr[1] EXCEPT !.husband_id = data.args])
            EXCEPT !.level_1 = "HUSB"]

FamTagWIFE(s, data) ==
    IF s.curr = NoObj THEN FamRaise(s, "TypeError", 71)
    ELSE [SetCurrFamily(s, [s.curr[1] EXCEPT !.wife_id = data.args])
            EXCEPT !.level_1 = "WIFE"]

\* the children kept as a set: an identifier already there is not added
FamTagCHIL_dedup(s, data) ==
    IF s.curr = NoObj THEN FamRaise(s, "TypeError", 75)
    ELSE [SetCurrFamily(s, [s.curr[1] EXCEPT !.children =
                               IF data.args \in {@[i] : i \in 1..Len(@)}
                               THEN @ ELSE Append(@, data.args)])
            EXCEPT !.level_1 = "CHIL"]

FamTagCHIL(s, data) ==
    IF s.curr = NoObj THEN FamRaise(s, "TypeError", 75)
    ELSE [SetCurrFamily(s, [s.curr[1] EXCEPT !.children = Append(@, data.args)])
            EXCEPT !.level_1 = "CHIL"]

\* DATE in MARR context with the result of the eager check ignored
FamDateMARR_unchecked(s, people, date_obj) ==
    IF s.curr = NoObj THEN FamRaise(s, "TypeError", 89)
    ELSE LET r == is_valid_married_date(people, s.curr[1], s.msgs, date_obj)
         IN  IF r.err # NoErr THEN [s EXCEPT !.err = r.err]
             ELSE SetCurrFamily([s EXCEPT !.msgs = r.msgs],
                                [s.curr[1] EXCEPT !.married_date = date_obj])

\* DATE in MARR context: stored only if the eager check returns True
FamDateMARR(s, people, date_obj) ==
    IF s.curr = NoObj THEN FamRaise(s, "TypeError", 89)
    ELSE LET r == is_valid_married_date(people, s.curr[1], s.msgs, date_obj)
         IN  IF r.err # NoErr THEN [s EXCEPT !.err = r.err]
             ELSE IF r.ok
             THEN SetCurrFamily([s EXCEPT !.msgs = r.msgs],
                                [s.curr[1] EXCEPT !.married_date = date_obj])
             ELSE [s EXCEPT !.msgs = r.msgs]

\* DATE in DIV context put under the eager check of the marriage date
FamDateDIV_checked(s, date_obj) ==
    IF s.curr = NoObj THEN FamRaise(s, "TypeError", 84)
    ELSE LET r == is_valid_married_date(individuals, s.curr[1], s.msgs, date_obj)
         IN  IF r.err # NoErr THEN [s EXCEPT !.err = r.err]
             ELSE IF r.ok
             THEN SetCurrFamily(s, [s.curr[1] EXCEPT !.divorced_date = date_obj])
             ELSE [s EXCEPT !.msgs = r.msgs]

\* DATE in DIV context
FamDateDIV(s, date_obj) ==
    IF s.curr = NoObj THEN FamRaise(s, "TypeError", 84)
    ELSE SetCurrFamily(s, [s.curr[1] EXCEPT !.divorced_date = date_obj])

\* DATE remembered as the context, as the other tags are
FamTagDATE_closing(s, people, data) ==
    IF ~parse_ok(data.args) THEN FamRaise(s, "ValueError", 80)
    ELSE IF s.level_1 = "MARR"
    THEN [FamDateMARR(s, people, parse(data.args)) EXCEPT !.level_1 = "DATE"]
    ELSE IF s.level_1 = "DIV"
    THEN [FamDateDIV(s, parse(data.args)) EXCEPT !.level_1 = "DATE"]
    ELSE s

FamTagDATE(s, people, data) ==
    IF ~parse_ok(data.args) THEN FamRaise(s, "ValueError", 80)
    ELSE IF s.level_1 = "MARR" THEN FamDateMARR(s, people, parse(data.args))
    ELSE IF s.level_1 = "DIV" THEN FamDateDIV(s, parse(data.args))
    ELSE s

\* the builder opening a family for every level-0 record, whatever its tag
Families_process_line_data_any_top_level(s, people, data) ==
    IF IsRejected(data) THEN FamRaise(s, "ValueError", 40)
    ELSE LET s1 == [s EXCEPT !.level_1 = ClearContext(data.level, s.level_1)]
         IN  CASE data.tag = "FAM" \/ data.level = 0 -> FamTagFAM(s1, data)
               [] data.tag = "MARR" -> FamTagMARR(s1, data)
               [] data.tag = "DIV"  -> FamTagDIV(s1, data)
               [] data.tag = "HUSB" -> FamTagHUSB(s1, data)
               [] data.tag = "WIFE" -> FamTagWIFE(s1, data)
               [] data.tag = "CHIL" -> FamTagCHIL(s1, data)
               [] data.tag = "DATE" -> FamTagDATE(s1, people, data)
               [] OTHER -> s1

\* Families.process_line_data(data), on builder state s with the person
\* mapping people: the builder state after the call (err = the exception)
Families_process_line_data(s, people, data) ==
    IF IsRejected(data) THEN FamRaise(s, "ValueError", 40)
    ELSE LET s1 == [s EXCEPT !.level_1 = ClearContext(data.level, s.level_1)]
         IN  CASE data.tag = "FAM"  -> FamTagFAM(s1, data)
               [] data.tag = "MARR" -> FamTagMARR(s1, data)
               [] data.tag = "DIV"  -> FamTagDIV(s1, data)
               [] data.tag = "HUSB" -> FamTagHUSB(s1, data)
               [] data.tag = "WIFE" -> FamTagWIFE(s1, data)
               [] data.tag = "CHIL" -> FamTagCHIL(s1, data)
               [] data.tag = "DATE" -> FamTagDATE(s1, people, data)
               [] OTHER -> s1

-----------------------------------------------------------------------------
(* Families.validate                                                       *)

\* one spouse of one family under one rule: the lookup in the person
\* mapping, the comparison "date > death_date" and the finding.
\* [msgs, err]: KeyError when the id is not a person, TypeError when the
\* message cannot be concatenated because the name is None
SpouseDeathCheck(people, sink, family, spouse_id, date, key, msg, lookup_line, message_line) ==
    IF spouse_id = None THEN [msgs |-> sink, err |-> NoErr]
    ELSE IF spouse_id \notin DOMAIN people
    THEN [msgs |-> sink, err |-> Raise("KeyError", "families.py", lookup_line)]
    ELSE LET spouse == people[spouse_id] IN
         IF spouse.death_date # NoDate /\ date[1] > spouse.death_date[1]
         THEN IF spouse.name = None
              THEN [msgs |-> sink,
                    err |-> Raise("TypeError", "families.py", message_line)]
              ELSE [msgs |-> add_message(sink, "FAMILY", key, family.id, "NA",
                                         msg \o spouse.id \o " " \o spouse.name),
                    err |-> NoErr]
         ELSE [msgs |-> sink, err |-> NoErr]

\* the wife examined before the husband
validate_death_before_marriage_wife_first(people, sink, family) ==
    IF family.married_date = NoDate THEN [msgs |-> sink, err |-> NoErr]
    ELSE LET w == SpouseDeathCheck(people, sink, family, family.wife_id,
                                   family.married_date, "US05",
                                   "marriage after death for ", 174, 182)
         IN  IF w.err # NoErr THEN w
             ELSE SpouseDeathCheck(people, w.msgs, family, family.husband_id,
                                   family.married_date, "US05",
                                   "marriage after death for ", 163, 171)

\* the rule comparing with >= instead of >
validate_death_before_marriage_or_equal(people, sink, family) ==
    LET shifted == [family EXCEPT !.married_date =
                       IF @ = NoDate THEN @ ELSE <<@[1] + 1>>]
        h == SpouseDeathCheck(people, sink, family, family.husband_id,
                              shifted.married_date, "US05",
                              "marriage after death for ", 163, 171)
    IN  IF family.married_date = NoDate THEN [msgs |-> sink, err |-> NoErr]
        ELSE IF h.err # NoErr THEN h
        ELSE SpouseDeathCheck(people, h.msgs, family, family.wife_id,
                              shifted.married_date, "US05",
                              "marriage after death for ", 174, 182)

\* Families._validate_death_before_marriage(family): US05
validate_death_before_marriage(people, sink, family) ==
    IF family.married_date = NoDate THEN [msgs |-> sink, err |-> NoErr]
    ELSE LET h == SpouseDeathCheck(people, sink, family, family.husband_id,
                                   family.married_date, "US05",
                                   "marriage after death for ", 163, 171)
         IN  IF h.err # NoErr THEN h
             ELSE SpouseDeathCheck(people, h.msgs, family, family.wife_id,
                                   family.married_date, "US05",
                                   "marriage after death for ", 174, 182)

\* the divorce rule run only for families that have a marriage date
validate_death_before_divorce_if_married(people, sink, family) ==
    IF family.divorced_date = NoDate \/ family.married_date = NoDate
    THEN [msgs |-> sink, err |-> NoErr]
    ELSE LET h == SpouseDeathCheck(people, sink, family, family.husband_id,
                                   family.divorced_date, "US06",
                                   "divorce after death for ", 193, 201)
         IN  IF h.err # NoErr THEN h
             ELSE SpouseDeathCheck(people, h.msgs, family, family.wife_id,
                                   family.divorced_date, "US06",
                                   "divorce after death for ", 204, 212)

\* Families._validate_death_before_divorce(family): US06
validate_death_before_divorce(people, sink, family) ==
    IF family.divorced_date = NoDate THEN [msgs |-> sink, err |-> NoErr]
    ELSE LET h == SpouseDeathCheck(people, sink, family, family.husband_id,
                                   family.divorced_date, "US06",
                                   "divorce after death for ", 193, 201)
         IN  IF h.err # NoErr THEN h
             ELSE SpouseDeathCheck(people, h.msgs, family, family.wife_id,
                                   family.divorced_date, "US06",
                                   "divorce after death for ", 204, 212)

\* the body of the loop of Families.validate for one family
ValidateFamily(people, sink, family) ==
    LET m == validate_death_before_marriage(people, sink, family)
    IN  IF m.err # NoErr THEN m
        ELSE validate_death_before_divorce(people, m.msgs, family)

\* the loop over fam_keys from position i: an exception ends it, the
\* findings appended so far stay in the sink
RECURSIVE ValidateFamiliesFrom(_, _, _, _, _)
ValidateFamiliesFrom(fams, fam_keys, i, people, sink) ==
    IF i > Len(fam_keys) THEN [msgs |-> sink, err |-> NoErr]
    ELSE LET r == ValidateFamily(people, sink, fams[fam_keys[i]])
         IN  IF r.err # NoErr THEN r
             ELSE ValidateFamiliesFrom(fams, fam_keys, i + 1, people, r.msgs)

\* Families.validate(): [msgs, err]
Families_validate(fams, keys, people, sink) ==
    ValidateFamiliesFrom(fams, sorted(keys), 1, people, sink)

-----------------------------------------------------------------------------
(* Person: the entity class behind People (its module is not part of the   *)
(* sources; fields and setters follow the specification's data model)      *)

\* Person(id)
Person(id) ==
    [id |-> id, name |-> None, gender |-> None,
     birth_date |-> NoDate, death_date |-> NoDate,
     child_of_families |-> <<>>, spouse_of_families |-> <<>>]

set_gender(person, gender) == [person EXCEPT !.gender = gender]
set_name(person, name) == [person EXCEPT !.name = name]
add_children_of_family(person, fam_id) ==
    [person EXCEPT !.child_of_families = Append(@, fam_id)]
add_spouse_of_family(person, fam_id) ==
    [person EXCEPT !.spouse_of_families = Append(@, fam_id)]

\* Person.set_date(date_string, kind): parses under the date grammar
set_date_ok(date_string) == parse_ok(date_string)
set_date(person, date_string, kind) ==
    IF kind = "birth" THEN [person EXCEPT !.birth_date = parse(date_string)]
    ELSE [person EXCEPT !.death_date = parse(date_string)]

\* Person accessors
get_person_id(person) == person.id
get_name(person) == person.name
get_birth_date(person) == person.birth_date
get_death_date(person) == person.death_date
get_children_of_families(person) == person.child_of_families
get_spouse_of_families(person) == person.spouse_of_families

\* int(x / y): the quotient truncated toward zero
TruncDiv(x, y) == IF x >= 0 THEN x \div y ELSE -((-x) \div y)

\* Person.get_age(): None without a birth date; otherwise the whole days
\* from birth to death (to the reference instant while alive) divided by
\* the year length 365.2425 and truncated
get_age(person, reference) ==
    IF person.birth_date = NoDate THEN <<>>
    ELSE LET end == IF person.death_date # NoDate THEN person.death_date[1]
                    ELSE reference[1]
         IN  <<TruncDiv((end - person.birth_date[1]) * 10000, 3652425)>>

\* Family accessors
get_husband_id(fam) == fam.husband_id
get_wife_id(fam) == fam.wife_id
get_children(fam) == fam.children

-----------------------------------------------------------------------------
(* People                                                                  *)

\* the person builder's state as one value
PplState ==
    [individuals |-> individuals, curr |-> curr_person,
     stored |-> curr_person_stored, level_1 |-> p_current_level_1,
     err |-> NoErr]

\* a method call on self._curr_person: it reaches the mapping only when
\* _curr_person is the object the mapping holds
SetCurrPerson(s, person) ==
    [s EXCEPT !.curr = <<person>>,
              !.individuals = IF s.stored THEN [@ EXCEPT ![person.id] = person]
                              ELSE @]

PplRaise(s, exc, line) == [s EXCEPT !.err = Raise(exc, "people.py", line)]

\* "if data['tag'] == 'INDI'": a fresh Person becomes current; the mapping
\* keeps the Person it already has for that id
PplTagINDI(s, data) ==
    [s EXCEPT !.curr = <<Person(data.args)>>,
              !.stored = data.args \notin DOMAIN s.individuals,
              !.individuals = setdefault(s.individuals, data.args, Person(data.args))]

PplTagSEX(s, data) ==
    IF s.curr = NoObj THEN PplRaise(s, "AttributeError", 53)
    ELSE [SetCurrPerson(s, set_gender(s.curr[1], data.args))
            EXCEPT !.level_1 = "SEX"]

PplTagBIRT(s, data) == [s EXCEPT !.level_1 = "BIRT"]

PplTagDEAT(s, data) == [s EXCEPT !.level_1 = "DEAT"]

PplTagFAMC(s, data) ==
    IF s.curr = NoObj THEN PplRaise(s, "AttributeError", 63)
    ELSE [SetCurrPerson(s, add_children_of_family(s.curr[1], data.args))
            EXCEPT !.level_1 = "FAMC"]

PplTagFAMS(s, data) ==
    IF s.curr = NoObj THEN PplRaise(s, "AttributeError", 67)
    ELSE [SetCurrPerson(s, add_spouse_of_family(s.curr[1], data.args))
            EXCEPT !.level_1 = "FAMS"]

PplTagNAME(s, data) ==
    IF s.curr = NoObj THEN PplRaise(s, "AttributeError", 74)
    ELSE [SetCurrPerson(s, set_name(s.curr[1], data.args))
            EXCEPT !.level_1 = "NAME"]

\* the two date fields swapped
DateTarget_swapped(context) ==
    IF context = "BIRT" THEN "death"
    ELSE IF context = "DEAT" THEN "birth"
    ELSE "none"

\* the field a DATE record is attributed to: "birth", "death" or "none"
DateTarget(context) ==
    IF context = "BIRT" THEN "birth"
    ELSE IF context = "DEAT" THEN "death"
    ELSE "none"

PplTagDATE(s, data) ==
    LET kind == DateTarget(s.level_1)
        line == IF kind = "birth" THEN 79 ELSE 82
    IN  IF kind = "none" THEN s
        ELSE IF s.curr = NoObj THEN PplRaise(s, "AttributeError", line)
        ELSE IF ~set_date_ok(data.args) THEN PplRaise(s, "ValueError", line)
        ELSE SetCurrPerson(s, set_date(s.curr[1], data.args, kind))

\* People.process_line_data(data) on builder state s: the builder state
\* after the call (err = the exception raised, if any)
People_process_line_data(s, data) ==
    IF IsRejected(data) THEN PplRaise(s, "ValueError", 43)
    ELSE LET s1 == [s EXCEPT !.level_1 = ClearContext(data.level, s.level_1)]
         IN  CASE data.tag = "INDI" -> PplTagINDI(s1, data)
               [] data.tag = "SEX"  -> PplTagSEX(s1, data)
               [] data.tag = "BIRT" -> PplTagBIRT(s1, data)
               [] data.tag = "DEAT" -> PplTagDEAT(s1, data)
               [] data.tag = "FAMC" -> PplTagFAMC(s1, data)
               [] data.tag = "FAMS" -> PplTagFAMS(s1, data)
               [] data.tag = "NAME" -> PplTagNAME(s1, data)
               [] data.tag = "DATE" -> PplTagDATE(s1, data)
               [] OTHER -> s1

-----------------------------------------------------------------------------
(* People.validate                                                         *)

Range(seq) == {seq[i] : i \in 1..Len(seq)}

\* self._msgs.add_message(self.CLASS_IDENTIFIER, story, id, name, message)
PersonFinding(sink, person, story, message) ==
    add_message(sink, People_CLASS_IDENTIFIER, story,
                get_person_id(person), get_name(person), message)

\* a death on the day of birth taken as a death before birth
is_valid_birth_date_or_equal(sink, person) ==
    IF /\ get_birth_date(person) # NoDate /\ get_death_date(person) # NoDate
       /\ get_death_date(person)[1] <= get_birth_date(person)[1]
    THEN PersonFinding(sink, person, "US03",
                       "Birth date should occur before death of an individual")
    ELSE sink

\* People._is_valid_birth_date(person): US03
is_valid_birth_date(sink, person) ==
    IF /\ get_birth_date(person) # NoDate /\ get_death_date(person) # NoDate
       /\ get_death_date(person)[1] < get_birth_date(person)[1]
    THEN PersonFinding(sink, person, "US03",
                       "Birth date should occur before death of an individual")
    ELSE sink

\* the bound put at 150
is_valid_age_above_150(sink, person, reference) ==
    LET age == get_age(person, reference) IN
    IF age # <<>> /\ age[1] > 150
    THEN PersonFinding(sink, person, "US07", "Age should be less than 150")
    ELSE sink

\* People._is_valid_age(person): US07
is_valid_age(sink, person, reference) ==
    LET age == get_age(person, reference) IN
    IF age # <<>> /\ age[1] > 149
    THEN PersonFinding(sink, person, "US07", "Age should be less than 150")
    ELSE sink

\* a birth on the day of the reference instant taken as a future birth
is_valid_birth_current_dates_or_equal(sink, person, current_time) ==
    IF get_birth_date(person) # NoDate
       /\ get_birth_date(person)[1] >= current_time[1]
    THEN PersonFinding(sink, person, "US01",
                       "Birth date should occur before current date")
    ELSE sink

\* People._is_valid_birth_current_dates(person): US01
is_valid_birth_current_dates(sink, person, current_time) ==
    IF get_birth_date(person) # NoDate
       /\ get_birth_date(person)[1] > current_time[1]
    THEN PersonFinding(sink, person, "US01",
                       "Birth date should occur before current date")
    ELSE sink

\* People._is_valid_death_current_dates(person): US01
is_valid_death_current_dates(sink, person, current_time) ==
    IF get_death_date(person) # NoDate
       /\ get_death_date(person)[1] > current_time[1]
    THEN PersonFinding(sink, person, "US01",
                       "Death date should occur before current date")
    ELSE sink

\* one finding for every family identifier the two link lists share
is_valid_sibling_per_shared(sink, person) ==
    LET children == Range(get_children_of_families(person))
        spouses == Range(get_spouse_of_families(person))
        finding == PersonFinding(<<>>, person, "US18", "Siblings should not marry")[1]
    IN  sink \o [i \in 1..Cardinality(spouses \cap children) |-> finding]

\* People._is_valid_sibling(person): US18
is_valid_sibling(sink, person) ==
    LET children == Range(get_children_of_families(person))
        spouses == Range(get_spouse_of_families(person))
    IN  IF children # {} /\ spouses # {} /\ spouses \cap children # {}
        THEN PersonFinding(sink, person, "US18", "Siblings should not marry")
        ELSE sink

\* the link taken as missing unless the person is both husband and wife
SpouseLinkMissing_either(fams, fam_id, peep_id) ==
    \/ fam_id \notin DOMAIN fams
    \/ get_husband_id(fams[fam_id]) # peep_id
    \/ get_wife_id(fams[fam_id]) # peep_id

\* "fam is None or husband != id and wife != id" for one spouse-of family
SpouseLinkMissing(fams, fam_id, peep_id) ==
    \/ fam_id \notin DOMAIN fams
    \/ /\ get_husband_id(fams[fam_id]) # peep_id
       /\ get_wife_id(fams[fam_id]) # peep_id

\* "fam is None or peep_id not in fam.get_children()"
ChildLinkMissing(fams, fam_id, peep_id) ==
    \/ fam_id \notin DOMAIN fams
    \/ peep_id \notin Range(get_children(fams[fam_id]))

\* the loop over the spouse-of families from position i; reading
\* self._families.families raises AttributeError while _families is None
RECURSIVE SpouseEntriesFrom(_, _, _, _, _)
SpouseEntriesFrom(sink, person, i, handle, fams) ==
    LET ids == get_spouse_of_families(person) IN
    IF i > Len(ids) THEN [msgs |-> sink, err |-> NoErr]
    ELSE IF handle = None
    THEN [msgs |-> sink, err |-> Raise("AttributeError", "people.py", 199)]
    ELSE SpouseEntriesFrom(
             IF SpouseLinkMissing(fams, ids[i], get_person_id(person))
             THEN PersonFinding(sink, person, "US26",
                      "corresponding spouse link missing in family " \o ids[i])
             ELSE sink,
             person, i + 1, handle, fams)

\* the loop over the child-of families from position i
RECURSIVE ChildEntriesFrom(_, _, _, _, _)
ChildEntriesFrom(sink, person, i, handle, fams) ==
    LET ids == get_children_of_families(person) IN
    IF i > Len(ids) THEN [msgs |-> sink, err |-> NoErr]
    ELSE IF handle = None
    THEN [msgs |-> sink, err |-> Raise("AttributeError", "people.py", 207)]
    ELSE ChildEntriesFrom(
             IF ChildLinkMissing(fams, ids[i], get_person_id(person))
             THEN PersonFinding(sink, person, "US26",
                      "corresponding child link missing in family " \o ids[i])
             ELSE sink,
             person, i + 1, handle, fams)

\* the wiring tested before the loops, links or no links
validate_corresponding_entries_wiring_first(sink, person, handle, fams) ==
    IF handle = None
    THEN [msgs |-> sink, err |-> Raise("AttributeError", "people.py", 199)]
    ELSE LET sp == SpouseEntriesFrom(sink, person, 1, handle, fams)
         IN  ChildEntriesFrom(sp.msgs, person, 1, handle, fams)

\* People._validate_corresponding_entries(person): US26, [msgs, err]
validate_corresponding_entries(sink, person, handle, fams) ==
    LET sp == SpouseEntriesFrom(sink, person, 1, handle, fams)
    IN  IF sp.err # NoErr THEN sp
        ELSE ChildEntriesFrom(sp.msgs, person, 1, handle, fams)

\* the instant the date rules compare with: self._current_time, taken at
\* construction, not the clock at the time of the call
ReferenceInstant_resampled(current_time, now) == now
ReferenceInstant(current_time, now) == current_time

\* the rules with death-not-future applied before birth-not-future
ValidatePerson_death_first(sink, person, reference, handle, fams) ==
    LET s1 == is_valid_birth_date(sink, person)
        s2 == is_valid_age(s1, person, reference)
        s3 == is_valid_death_current_dates(s2, person, reference)
        s4 == is_valid_birth_current_dates(s3, person, reference)
        s5 == is_valid_sibling(s4, person)
    IN  validate_corresponding_entries(s5, person, handle, fams)

\* the body of the loop of People.validate for one person
ValidatePerson(sink, person, reference, handle, fams) ==
    LET s1 == is_valid_birth_date(sink, person)
        s2 == is_valid_age(s1, person, reference)
        s3 == is_valid_birth_current_dates(s2, person, reference)
        s4 == is_valid_death_current_dates(s3, person, reference)
        s5 == is_valid_sibling(s4, person)
    IN  validate_corresponding_entries(s5, person, handle, fams)

\* the loop over ind_keys from position i: an exception ends it, the
\* findings appended so far stay in the sink
RECURSIVE ValidatePeopleFrom(_, _, _, _, _, _, _)
ValidatePeopleFrom(people, ind_keys, i, reference, handle, fams, sink) ==
    IF i > Len(ind_keys) THEN [msgs |-> sink, err |-> NoErr]
    ELSE LET r == ValidatePerson(sink, people[ind_keys[i]], reference, handle, fams)
         IN  IF r.err # NoErr THEN r
             ELSE ValidatePeopleFrom(people, ind_keys, i + 1, reference,
                                     handle, fams, r.msgs)

\* People.validate(): [msgs, err]
People_validate(people, keys, reference, handle, fams, sink) ==
    ValidatePeopleFrom(people, sorted(keys), 1, reference, handle, fams, sink)

-----------------------------------------------------------------------------
(* Inputs                                                                  *)

PersonIds == {"@I1@", "@I2@"}
FamilyIds == {"@F1@", "@F2@"}
Levels == {0, 1, 2}
Names == {"Bob /Saget/"}

Rec(level, tag, args, valid) ==
    [level |-> level, tag |-> tag, args |-> args, valid |-> valid]

\* the argument strings a tag is given
ArgsOf(tag) ==
    CASE tag \in {"INDI", "HUSB", "WIFE", "CHIL"} -> PersonIds
      [] tag \in {"FAM", "FAMC", "FAMS"} -> FamilyIds
      [] tag = "NAME" -> Names
      [] tag = "SEX" -> {"M"}
      [] tag = "DATE" -> GoodDates \cup BadDates
      [] tag = "BLAH" -> {"sdfsd"}
      [] OTHER -> {""}

\* the levels a tag is given: INDI and FAM open a level-0 record, the
\* subordinate tags come at level 1 or deeper, an unknown tag anywhere
LevelsOf(tag) ==
    IF tag \in {"INDI", "FAM"} THEN {0}
    ELSE IF tag = "BLAH" THEN Levels
    ELSE Levels \ {0}

\* well-formed records with the given tags
RecordsOf(tags) ==
    UNION {{Rec(l, t, a, "Y") : l \in LevelsOf(t), a \in ArgsOf(t)} : t \in tags}

\* records the upstream reader has flagged invalid
InvalidRecords ==
    {Rec(1, "BLAH", "sdfsd", "N"), Rec(0, "INDI", "@I1@", "N"),
     Rec(0, "FAM", "@F1@", "N"), Rec(1, "MARR", "", "N"),
     Rec(1, "BIRT", "", "N"), Rec(2, "DATE", "1 JAN 2000", "N")}

PeopleTags == {"INDI", "SEX", "BIRT", "DEAT", "FAMC", "FAMS", "NAME", "DATE"}
FamiliesTags == {"FAM", "MARR", "DIV", "HUSB", "WIFE", "CHIL", "DATE"}

\* the records each builder is handed: its own tags, the other builder's
\* top-level tag and a tag nobody recognizes
PeopleRecords ==
    RecordsOf(PeopleTags \cup {"FAM", "BLAH"}) \cup InvalidRecords
FamiliesRecords ==
    RecordsOf(FamiliesTags \cup {"INDI", "BLAH"}) \cup InvalidRecords

NoCall == [who |-> "none", data |-> Rec(0, "", "", "Y")]

-----------------------------------------------------------------------------
(* Specification: both builders, from construction                         *)

EmptyMap == [k \in {} |-> NoObj]

\* dict keys keep insertion order: a call that adds a key appends it
KeysAfter(keys, before, after) ==
    IF DOMAIN after = DOMAIN before THEN keys
    ELSE Append(keys, CHOOSE k \in DOMAIN after \ DOMAIN before : TRUE)

\* the instant the builders of Spec and SpecFam are constructed at
ConstructedAt == <<Ordinal(2026, 1, 15)>>

\* the state of each builder
PeopleVars == <<individuals, curr_person, curr_person_stored, p_current_level_1>>
FamiliesVars == <<families, curr_family, curr_family_stored, f_current_level_1>>

\* the engine state the builders leave alone
EngineVars == <<p_families, p_current_time, clock, script, calls, first_run>>

\* People.__init__ sets _families = None and _current_time = datetime.now();
\* nothing has been called and no run came before
EngineInit(now) ==
    /\ p_families = None
    /\ p_current_time = now
    /\ clock = now
    /\ script = <<>>
    /\ calls = <<>>
    /\ first_run = <<>>

\* People.__init__ and Families.__init__
Init ==
    /\ individuals = EmptyMap
    /\ curr_person = NoObj
    /\ curr_person_stored = FALSE
    /\ p_current_level_1 = None
    /\ families = EmptyMap
    /\ curr_family = NoObj
    /\ curr_family_stored = FALSE
    /\ f_current_level_1 = None
    /\ msgs = <<>>
    /\ err = NoErr
    /\ last = NoCall
    /\ nrec = 0
    /\ individuals_keys = <<>>
    /\ families_keys = <<>>
    /\ EngineInit(ConstructedAt)

\* one call of People.process_line_data
PeopleIngest(data) ==
    LET r == People_process_line_data(PplState, data) IN
    /\ individuals' = r.individuals
    /\ curr_person' = r.curr
    /\ curr_person_stored' = r.stored
    /\ p_current_level_1' = r.level_1
    /\ err' = r.err
    /\ last' = [who |-> "people", data |-> data]
    /\ nrec' = nrec + 1
    /\ individuals_keys' = KeysAfter(individuals_keys, individuals, r.individuals)
    /\ UNCHANGED <<families, curr_family, curr_family_stored,
                   f_current_level_1, msgs, families_keys, EngineVars>>

\* one call of Families.process_line_data
FamiliesIngest(data) ==
    LET r == Families_process_line_data(FamState, individuals, data) IN
    /\ families' = r.families
    /\ curr_family' = r.curr
    /\ curr_family_stored' = r.stored
    /\ f_current_level_1' = r.level_1
    /\ msgs' = r.msgs
    /\ err' = r.err
    /\ last' = [who |-> "families", data |-> data]
    /\ nrec' = nrec + 1
    /\ families_keys' = KeysAfter(families_keys, families, r.families)
    /\ UNCHANGED <<individuals, curr_person, curr_person_stored,
                   p_current_level_1, individuals_keys, EngineVars>>

PeopleStep ==
    /\ nrec < MaxRecords
    /\ \E data \in PeopleRecords : PeopleIngest(data)

FamiliesStep ==
    /\ nrec < MaxRecords
    /\ \E data \in FamiliesRecords : FamiliesIngest(data)

Next == PeopleStep \/ FamiliesStep

Spec == Init /\ [][Next]_vars

-----------------------------------------------------------------------------
(* Specification: the family builder over a populated person mapping       *)

Birth(k) == IF k = "none" THEN NoDate ELSE parse(k)

\* a person as the person builder leaves it after INDI, NAME, BIRT and DATE
BuiltPerson(id, k) ==
    [Person(id) EXCEPT !.name = "Bob /Saget/", !.birth_date = Birth(k)]

\* person mappings the person builder can have produced: each person absent,
\* without a birth date, or born on one of the dates
PeopleMappings ==
    {[id \in present |-> BuiltPerson(id, kinds[id])] :
        present \in SUBSET PersonIds,
        kinds \in [PersonIds -> {"none"} \cup GoodDates]}

\* the records of one family: its FAM line, the subordinate tags at level 1,
\* DATE at either depth
OneFamilyRecords ==
    {Rec(0, "FAM", "@F1@", "Y"), Rec(1, "HUSB", "@I1@", "Y"),
     Rec(1, "WIFE", "@I2@", "Y"), Rec(1, "MARR", "", "Y"), Rec(1, "DIV", "", "Y")}
    \cup UNION {{Rec(l, t, a, "Y") : l \in {1, 2}, a \in ArgsOf(t)}
                 : t \in {"DATE", "BLAH"}}

InitFam ==
    /\ individuals \in PeopleMappings
    /\ curr_person = NoObj
    /\ curr_person_stored = FALSE
    /\ p_current_level_1 = None
    /\ families = EmptyMap
    /\ curr_family = NoObj
    /\ curr_family_stored = FALSE
    /\ f_current_level_1 = None
    /\ msgs = <<>>
    /\ err = NoErr
    /\ last = NoCall
    /\ nrec = 0
    /\ individuals_keys = sorted(KeySeq(DOMAIN individuals))
    /\ families_keys = <<>>
    /\ EngineInit(ConstructedAt)

OneFamilyStep ==
    /\ nrec < MaxFamRecords
    /\ \E data \in OneFamilyRecords : FamiliesIngest(data)

NextFam == OneFamilyStep

SpecFam == InitFam /\ [][NextFam]_vars

-----------------------------------------------------------------------------
(* Engine calls: set_families and the two validate() passes                *)

NoData == Rec(0, "", "", "Y")

\* one call of Families.validate()
FamiliesValidate ==
    LET r == Families_validate(families, families_keys, individuals, msgs) IN
    /\ msgs' = r.msgs
    /\ err' = r.err
    /\ last' = [who |-> "families.validate", data |-> NoData]
    /\ calls' = Append(calls, "families.validate")
    /\ UNCHANGED <<PeopleVars, FamiliesVars, nrec, individuals_keys,
                   families_keys, p_families, p_current_time, clock, script,
                   first_run>>

\* one call of People.set_families(families)
SetFamilies ==
    /\ p_families' = "families"
    /\ err' = NoErr
    /\ last' = [who |-> "set_families", data |-> NoData]
    /\ calls' = Append(calls, "set_families")
    /\ UNCHANGED <<PeopleVars, FamiliesVars, msgs, nrec, individuals_keys,
                   families_keys, p_current_time, clock, script, first_run>>

\* one call of People.validate()
PeopleValidate ==
    LET r == People_validate(individuals, individuals_keys,
                             ReferenceInstant(p_current_time, clock),
                             p_families, families, msgs) IN
    /\ msgs' = r.msgs
    /\ err' = r.err
    /\ last' = [who |-> "people.validate", data |-> NoData]
    /\ calls' = Append(calls, "people.validate")
    /\ UNCHANGED <<PeopleVars, FamiliesVars, nrec, individuals_keys,
                   families_keys, p_families, p_current_time, clock, script,
                   first_run>>

-----------------------------------------------------------------------------
(* Specification: one family ingested from a script, then validated        *)

NameOf(id) == IF id = "@I1@" THEN "Bob /Saget/" ELSE "Betty /White/"

OptDate(k) == IF k = "none" THEN NoDate ELSE parse(k)

\* husband @I1@ and wife @I2@ as the person builder leaves them after INDI,
\* NAME, BIRT + DATE and DEAT + DATE
ScenPeople ==
    {[id \in PersonIds |->
        [Person(id) EXCEPT !.name = NameOf(id),
                           !.birth_date = OptDate(b[id]),
                           !.death_date = OptDate(d[id])]] :
        b \in [PersonIds -> {"none"} \cup ScenDates],
        d \in {x \in [PersonIds -> {"none"} \cup ScenDates] : x["@I1@"] = "none"}}

\* FAM, MARR with its DATE, then HUSB and WIFE
DateFirstScript(fid, date) ==
    <<Rec(0, "FAM", fid, "Y"), Rec(1, "MARR", "", "Y"), Rec(2, "DATE", date, "Y"),
      Rec(1, "HUSB", "@I1@", "Y"), Rec(1, "WIFE", "@I2@", "Y")>>

\* FAM, HUSB and WIFE, then MARR with its DATE
SpousesFirstScript(fid, date) ==
    <<Rec(0, "FAM", fid, "Y"), Rec(1, "HUSB", "@I1@", "Y"),
      Rec(1, "WIFE", "@I2@", "Y"), Rec(1, "MARR", "", "Y"),
      Rec(2, "DATE", date, "Y")>>

\* FAM, both spouse records naming @I1@, MARR with its DATE, then a WIFE
\* record that names @I2@ instead
ReplacedWifeScript(fid, date) ==
    <<Rec(0, "FAM", fid, "Y"), Rec(1, "HUSB", "@I1@", "Y"),
      Rec(1, "WIFE", "@I1@", "Y"), Rec(1, "MARR", "", "Y"),
      Rec(2, "DATE", date, "Y"), Rec(1, "WIFE", "@I2@", "Y")>>

ScriptDates == {"1 JAN 2000", "15 JUN 2000"}

ReplacedWifeScripts ==
    {ReplacedWifeScript(fid, date) : fid \in FamilyIds, date \in ScriptDates}

DateFirstScripts ==
    {DateFirstScript(fid, date) : fid \in FamilyIds, date \in ScriptDates}
SpousesFirstScripts ==
    {SpousesFirstScript(fid, date) : fid \in FamilyIds, date \in ScriptDates}

InitScen ==
    /\ individuals \in ScenPeople
    /\ individuals_keys = <<"@I1@", "@I2@">>
    /\ curr_person = <<individuals["@I2@"]>>
    /\ curr_person_stored = TRUE
    /\ p_current_level_1 = None
    /\ families = EmptyMap
    /\ families_keys = <<>>
    /\ curr_family = NoObj
    /\ curr_family_stored = FALSE
    /\ f_current_level_1 = None
    /\ msgs = <<>>
    /\ err = NoErr
    /\ last = NoCall
    /\ nrec = 0
    /\ p_families = None
    /\ p_current_time = ConstructedAt
    /\ clock = ConstructedAt
    /\ script \in DateFirstScripts \cup SpousesFirstScripts \cup ReplacedWifeScripts
    /\ calls = <<>>
    /\ first_run = <<>>

\* the next record of the script goes to the family builder
ScriptStep ==
    /\ nrec < Len(script)
    /\ FamiliesIngest(script[nrec + 1])

\* the rules run once the builder has been given every record
ScenValidateStep ==
    /\ nrec = Len(script)
    /\ Len(calls) < MaxPasses
    /\ FamiliesValidate

NextScen == ScriptStep \/ ScenValidateStep

SpecScen == InitScen /\ [][NextScen]_vars

-----------------------------------------------------------------------------
(* Specification: family validation over populated mappings                *)

\* identifiers whose lexical order differs from their numeric order
ValFamilyIds == {"@F2@", "@F10@"}

\* dates of deaths, marriages and divorces
EventDates == {"1 JAN 2000", "15 JUN 2000"}

\* a person dict as the tests store it: named, alive or dead on a date
ValPerson(id, death) ==
    [Person(id) EXCEPT !.name = NameOf(id), !.death_date = OptDate(death)]

\* person mappings: each of @I1@, @I2@ absent, alive or dead
FamValPeople ==
    {[id \in present |-> ValPerson(id, death[id])] :
        present \in SUBSET PersonIds,
        death \in [PersonIds -> {"none"} \cup EventDates]}

\* a family dict as the tests store it
ValFamily(id, husband, wife, married, divorced) ==
    [NewFamily(id) EXCEPT !.husband_id = husband, !.wife_id = wife,
                          !.married_date = OptDate(married),
                          !.divorced_date = OptDate(divorced),
                          !.married = married # "none",
                          !.divorced = divorced # "none"]

\* @F2@ with any spouses and dates, @F10@ with both spouses and any dates
ValFamiliesOf(id) ==
    {ValFamily(id, h, w, m, d) :
        h \in IF id = "@F2@" THEN {None, "@I1@"} ELSE {"@I1@"},
        w \in IF id = "@F2@" THEN {None, "@I2@"} ELSE {"@I2@"},
        m \in {"none"} \cup EventDates,
        d \in {"none"} \cup EventDates}

\* the permutations of a set of at most two keys
KeyOrders(S) ==
    {q \in UNION {[1..n -> S] : n \in 0..2} :
        /\ Len(q) = Cardinality(S)
        /\ \A k \in S : \E i \in 1..Len(q) : q[i] = k}

FamValFamilies ==
    UNION {[ids -> UNION {ValFamiliesOf(id) : id \in ids}] : ids \in SUBSET ValFamilyIds}

\* a person as the person builder leaves it
DatedPerson(id, birth, death, spouse_of, child_of) ==
    [Person(id) EXCEPT !.name = NameOf(id),
                       !.birth_date = OptDate(birth),
                       !.death_date = OptDate(death),
                       !.spouse_of_families = spouse_of,
                       !.child_of_families = child_of]

\* a family with the given spouses and children, no dates
LinkFamily(id, husband, wife, children) ==
    [ValFamily(id, husband, wife, "none", "none") EXCEPT !.children = children]

\* a child @I1@ born 31 DEC 2000 and a parent @I2@, alive, dead before the
\* birth of the child or dead years after it
ParentPeople ==
    {[id \in PersonIds |->
        IF id = "@I1@" THEN DatedPerson(id, "31 DEC 2000", "none", <<>>, <<>>)
        ELSE DatedPerson(id, "1 JAN 2000", d, <<>>, <<>>)] :
        d \in {"none", "1 JAN 2000", "16 JAN 2026"}}

\* families without dates whose child is @I1@ and whose husband or wife is
\* @I2@
ParentFamilies ==
    {[id \in ids |->
        IF role[id] = "husband" THEN LinkFamily(id, "@I2@", None, <<"@I1@">>)
        ELSE LinkFamily(id, None, "@I2@", <<"@I1@">>)] :
        ids \in SUBSET ValFamilyIds \ {{}},
        role \in [ValFamilyIds -> {"husband", "wife"}]}

InitFamVal ==
    /\ \/ /\ individuals \in FamValPeople
          /\ families \in {f \in FamValFamilies : \A id \in DOMAIN f : f[id].id = id}
       \/ /\ individuals \in ParentPeople
          /\ families \in ParentFamilies
    /\ individuals_keys \in KeyOrders(DOMAIN individuals)
    /\ individuals_keys = sorted(individuals_keys)
    /\ curr_person = NoObj
    /\ curr_person_stored = FALSE
    /\ p_current_level_1 = None
    /\ families_keys \in KeyOrders(DOMAIN families)
    /\ curr_family = NoObj
    /\ curr_family_stored = FALSE
    /\ f_current_level_1 = None
    /\ msgs = <<>>
    /\ err = NoErr
    /\ last = NoCall
    /\ nrec = 0
    /\ EngineInit(ConstructedAt)

FamValStep ==
    /\ Len(calls) < MaxPasses
    /\ FamiliesValidate

NextFamVal == FamValStep

SpecFamVal == InitFamVal /\ [][NextFamVal]_vars

-----------------------------------------------------------------------------
(* Specification: person validation over populated mappings                *)

ValPersonIds == {"@I2@", "@I10@"}

Links == {<<>>, <<"@F2@">>}

\* @I2@ with any dates and links; @I10@ absent, newly born or 150 years old
DatePeople ==
    {[id \in ids |->
        IF id = "@I2@" THEN DatedPerson(id, b, d, s, c)
        ELSE DatedPerson(id, b10, "none", <<>>, <<>>)] :
        ids \in {{"@I2@"}, ValPersonIds},
        b \in {"none"} \cup BirthDates, d \in {"none"} \cup DeathDates,
        s \in Links, c \in Links, b10 \in {"16 JAN 2026", "15 JAN 1876"}}

\* no family, or @F2@ with husband @I2@
DateFamilies ==
    {EmptyMap,
     [id \in {"@F2@"} |-> ValFamily(id, "@I2@", None, "none", "none")]}

\* @I2@ without dates and with up to two spouse-of and two child-of families;
\* @I10@ absent or a spouse of @F2@
LinkPeople ==
    {[id \in ids |->
        IF id = "@I2@" THEN DatedPerson(id, "none", "none", s, c)
        ELSE DatedPerson(id, "none", "none", <<"@F2@">>, <<>>)] :
        ids \in {{"@I2@"}, ValPersonIds},
        s \in {<<>>, <<"@F2@">>, <<"@F2@", "@F10@">>},
        c \in {<<>>, <<"@F2@">>, <<"@F10@">>, <<"@F10@", "@F2@">>}}

LinkFamiliesOf(id) ==
    IF id = "@F2@"
    THEN {LinkFamily(id, h, w, c) :
             h \in {None} \cup ValPersonIds, w \in {None} \cup ValPersonIds,
             c \in {<<>>, <<"@I2@">>, <<"@I10@", "@I2@">>}}
    ELSE {LinkFamily(id, "@I2@", None, <<>>),
          LinkFamily(id, None, None, <<"@I2@">>)}

LinkFamilies ==
    UNION {{f \in [ids -> UNION {LinkFamiliesOf(id) : id \in ids}] :
               \A id \in ids : f[id].id = id} : ids \in SUBSET ValFamilyIds}

\* the mappings and the construction instant: the dated cases at every
\* instant, the linked cases at one
PplValCases ==
    {[people |-> p, fams |-> f, now |-> parse(n)] :
        p \in DatePeople, f \in DateFamilies, n \in Nows}
    \cup {[people |-> p, fams |-> f, now |-> ConstructedAt] :
            p \in LinkPeople, f \in LinkFamilies}

InitPplVal ==
    /\ \E c \in PplValCases :
         /\ individuals = c.people
         /\ families = c.fams
         /\ EngineInit(c.now)
    /\ individuals_keys \in KeyOrders(DOMAIN individuals)
    /\ families_keys = sorted(KeySeq(DOMAIN families))
    /\ curr_person = NoObj
    /\ curr_person_stored = FALSE
    /\ p_current_level_1 = None
    /\ curr_family = NoObj
    /\ curr_family_stored = FALSE
    /\ f_current_level_1 = None
    /\ msgs = <<>>
    /\ err = NoErr
    /\ last = NoCall
    /\ nrec = 0

SetFamiliesStep ==
    /\ Len(calls) < MaxCalls
    /\ SetFamilies

PeopleValidateStep ==
    /\ Len(calls) < MaxCalls
    /\ PeopleValidate

NextPplVal == SetFamiliesStep \/ PeopleValidateStep

SpecPplVal == InitPplVal /\ [][NextPplVal]_vars

-----------------------------------------------------------------------------
(* Specification: two runs over the same records, the clock advancing      *)

\* @I2@ with a birth 150 years back or in the future of the first instant
RerunPeople ==
    {[id \in {"@I2@"} |-> DatedPerson(id, b, d, <<>>, <<>>)] :
        b \in {"none", "15 JAN 1876", "16 JAN 2026"},
        d \in {"none"} \cup DeathDates}

\* no family, or @F2@ with husband @I2@ and a marriage date
RerunFamilies ==
    {EmptyMap,
     [id \in {"@F2@"} |-> ValFamily(id, "@I2@", None, "15 JUN 2000", "none")]}

InitRerun ==
    /\ individuals \in RerunPeople
    /\ individuals_keys = <<"@I2@">>
    /\ families \in RerunFamilies
    /\ families_keys = KeySeq(DOMAIN families)
    /\ \E n \in Nows : EngineInit(parse(n))
    /\ curr_person = NoObj
    /\ curr_person_stored = FALSE
    /\ p_current_level_1 = None
    /\ curr_family = NoObj
    /\ curr_family_stored = FALSE
    /\ f_current_level_1 = None
    /\ msgs = <<>>
    /\ err = NoErr
    /\ last = NoCall
    /\ nrec = 0

\* time passes: datetime.now() moves to a later instant
Tick ==
    /\ \E n \in Nows : parse(n)[1] > clock[1] /\ clock' = parse(n)
    /\ UNCHANGED <<PeopleVars, FamiliesVars, msgs, err, last, nrec,
                   individuals_keys, families_keys, p_families, p_current_time,
                   script, calls, first_run>>

\* the program is run again on the same records: the builders produce the
\* same mappings, People.__init__ takes datetime.now() and has no families
\* wired, the sink is new; the outcome of the first run is kept
NewRun ==
    /\ first_run = <<>>
    /\ calls # <<>>
    /\ first_run' = <<[calls |-> calls, instant |-> p_current_time,
                       msgs |-> msgs]>>
    /\ msgs' = <<>>
    /\ err' = NoErr
    /\ last' = NoCall
    /\ calls' = <<>>
    /\ p_families' = None
    /\ p_current_time' = clock
    /\ UNCHANGED <<PeopleVars, FamiliesVars, nrec, individuals_keys,
                   families_keys, clock, script>>

RerunSetFamilies == Len(calls) < MaxRunCalls /\ SetFamilies
RerunPeopleValidate == Len(calls) < MaxRunCalls /\ PeopleValidate
RerunFamiliesValidate == Len(calls) < MaxRunCalls /\ FamiliesValidate

NextRerun ==
    \/ Tick
    \/ NewRun
    \/ RerunSetFamilies
    \/ RerunPeopleValidate
    \/ RerunFamiliesValidate

SpecRerun == InitRerun /\ [][NextRerun]_vars

-----------------------------------------------------------------------------
(* Specification: the whole run, ingestion and validation interleaved      *)

\* the person mapping when the run starts: empty, or @I1@ as the person
\* builder leaves it after INDI, NAME, BIRT and DATE, born in the past, on
\* the day of construction or the day after, or after DEAT and DATE too,
\* born the day after construction and dead in the past
PipelinePeople ==
    {EmptyMap} \cup
    {[id \in {"@I1@"} |-> DatedPerson(id, b, "none", <<>>, <<>>)] :
        b \in {"1 JAN 2000", "15 JAN 2026", "16 JAN 2026"}} \cup
    {[id \in {"@I1@"} |->
        DatedPerson(id, "16 JAN 2026", "1 JAN 2000", <<>>, <<>>)]}

\* the person builder is handed a death, before or after construction
PipelinePeopleRecords ==
    {Rec(1, "DEAT", "", "Y"), Rec(2, "DATE", "1 JAN 2000", "Y"),
     Rec(2, "DATE", "16 JAN 2026", "Y")}

\* the family builder is handed one family with a husband, a marriage and
\* a divorce
PipelineFamiliesRecords ==
    {Rec(0, "FAM", "@F1@", "Y"), Rec(1, "HUSB", "@I1@", "Y"),
     Rec(1, "MARR", "", "Y"), Rec(1, "DIV", "", "Y"),
     Rec(2, "DATE", "15 JUN 2000", "Y")}

InitPipeline ==
    /\ individuals \in PipelinePeople
    /\ individuals_keys = KeySeq(DOMAIN individuals)
    /\ curr_person = IF individuals = EmptyMap THEN NoObj
                     ELSE <<individuals["@I1@"]>>
    /\ curr_person_stored = (individuals # EmptyMap)
    /\ p_current_level_1 = None
    /\ families = EmptyMap
    /\ families_keys = <<>>
    /\ curr_family = NoObj
    /\ curr_family_stored = FALSE
    /\ f_current_level_1 = None
    /\ msgs = <<>>
    /\ err = NoErr
    /\ last = NoCall
    /\ nrec = 0
    /\ EngineInit(ConstructedAt)

PipelinePeopleStep ==
    /\ nrec < MaxPipelineRecords
    /\ \E data \in PipelinePeopleRecords : PeopleIngest(data)

PipelineFamiliesStep ==
    /\ nrec < MaxPipelineRecords
    /\ \E data \in PipelineFamiliesRecords : FamiliesIngest(data)

PipelineSetFamilies == Len(calls) < MaxPipelineCalls /\ SetFamilies
PipelinePeopleValidate == Len(calls) < MaxPipelineCalls /\ PeopleValidate
PipelineFamiliesValidate == Len(calls) < MaxPipelineCalls /\ FamiliesValidate

\* the wall clock passes midnight once while the run goes on
PipelineTick == clock = p_current_time /\ Tick

NextPipeline ==
    \/ PipelinePeopleStep
    \/ PipelineFamiliesStep
    \/ PipelineSetFamilies
    \/ PipelinePeopleValidate
    \/ PipelineFamiliesValidate
    \/ PipelineTick

SpecPipeline == InitPipeline /\ [][NextPipeline]_vars

-----------------------------------------------------------------------------
(* Properties                                                              *)

\* the step is one call of the named builder, with record Called
PeopleCalled == last'.who = "people" /\ nrec' = nrec + 1
FamiliesCalled == last'.who = "families" /\ nrec' = nrec + 1
Called == last'.data

\* the context in force when the tag of the called record is interpreted
PeopleContext == IF Called.level < 2 THEN None ELSE p_current_level_1
FamiliesContext == IF Called.level < 2 THEN None ELSE f_current_level_1

\* C1: in both builders a call with a record flagged invalid (valid = "N")
\* raises, and the entity mapping, the current entity, the remembered
\* context and the message sink are what they were before the call.
C1_InvalidRecordRejected ==
    [][(PeopleCalled \/ FamiliesCalled) /\ Called.valid = "N"
        => /\ err'.exc = "ValueError"
           /\ UNCHANGED <<PeopleVars, FamiliesVars, msgs>>]_vars

\* an invalid record was rejected by the family builder after valid records
\* had created a family, made it current and opened a context
C1_Witness ==
    /\ last.who = "families" /\ last.data.valid = "N"
    /\ err.exc = "ValueError"
    /\ DOMAIN families # {} /\ curr_family # NoObj
    /\ f_current_level_1 # None

\* C2: in the person builder a DATE call that returns writes the current
\* person's birth date exactly when the context in force is BIRT, the death
\* date exactly when it is DEAT, and changes no person under any other
\* context.
C2_DateWritesByContext ==
    [][PeopleCalled /\ Called.valid = "Y" /\ Called.tag = "DATE" /\ err' = NoErr
        => LET d == strptime(Called.args)
               written ==
                   IF PeopleContext = "BIRT"
                   THEN [curr_person[1] EXCEPT !.birth_date = d]
                   ELSE [curr_person[1] EXCEPT !.death_date = d]
           IN  IF PeopleContext \in {"BIRT", "DEAT"}
               THEN /\ curr_person' = <<written>>
                    /\ individuals' =
                         IF curr_person_stored
                         THEN [individuals EXCEPT ![written.id] = written]
                         ELSE individuals
               ELSE UNCHANGED <<individuals, curr_person>>]_vars

\* a DATE under BIRT has set the birth date of the person the mapping holds
C2_Witness ==
    /\ last.who = "people" /\ last.data.tag = "DATE" /\ last.data.valid = "Y"
    /\ err = NoErr
    /\ p_current_level_1 = "BIRT"
    /\ curr_person # NoObj /\ curr_person_stored
    /\ individuals[curr_person[1].id].birth_date = strptime(last.data.args)
    /\ individuals[curr_person[1].id].death_date = NoDate

PeopleOpeningTags == {"SEX", "BIRT", "DEAT", "FAMC", "FAMS", "NAME"}
FamiliesOpeningTags == {"MARR", "DIV", "HUSB", "WIFE", "CHIL"}

\* C3: in both builders a well-formed record with level below 2 whose tag
\* opens no context leaves the remembered context empty, and a DATE record
\* that has level below 2 or arrives with an empty context changes no
\* entity, no current entity and no finding.
C3_LowLevelClearsContext ==
    [][/\ PeopleCalled /\ Called.valid = "Y" /\ Called.level < 2
          /\ Called.tag \notin PeopleOpeningTags
          => p_current_level_1' = None
       /\ FamiliesCalled /\ Called.valid = "Y" /\ Called.level < 2
          /\ Called.tag \notin FamiliesOpeningTags
          => f_current_level_1' = None
       /\ PeopleCalled /\ Called.valid = "Y" /\ Called.tag = "DATE"
          /\ (Called.level < 2 \/ p_current_level_1 = None)
          => UNCHANGED <<individuals, curr_person, curr_person_stored>>
       /\ FamiliesCalled /\ Called.valid = "Y" /\ Called.tag = "DATE"
          /\ (Called.level < 2 \/ f_current_level_1 = None)
          => UNCHANGED <<families, curr_family, curr_family_stored, msgs>>]_vars

\* a level-1 DATE straight after DIV: the family is flagged divorced and the
\* date went to no field
C3_Witness ==
    /\ last.who = "families" /\ last.data.tag = "DATE" /\ last.data.valid = "Y"
    /\ last.data.level < 2 /\ strptime_ok(last.data.args)
    /\ err = NoErr
    /\ curr_family # NoObj /\ curr_family[1].divorced
    /\ curr_family[1].divorced_date = NoDate
    /\ f_current_level_1 = None

\* C4: a well-formed INDI (resp. FAM) record for an identifier already in
\* the mapping leaves the mapping as it was: the stored entity keeps every
\* field set so far.
C4_FirstWriteWins ==
    [][/\ PeopleCalled /\ Called.valid = "Y" /\ Called.tag = "INDI"
          /\ Called.args \in DOMAIN individuals
          => individuals' = individuals
       /\ FamiliesCalled /\ Called.valid = "Y" /\ Called.tag = "FAM"
          /\ Called.args \in DOMAIN families
          => families' = families]_vars

\* a second FAM for a family that already has a husband: the mapping still
\* has the husband
C4_Witness ==
    /\ last.who = "families" /\ last.data.tag = "FAM" /\ last.data.valid = "Y"
    /\ last.data.args \in DOMAIN families
    /\ families[last.data.args].husband_id # None
    /\ curr_family = <<NewFamily(last.data.args)>>

\* C5: a subordinate record that returns shows its effect in the entity the
\* mapping holds under the current entity's identifier, also when the
\* current entity came from a FAM (resp. INDI) record for an identifier that
\* already existed.
C5_SubordinateReachesMapping ==
    [][/\ FamiliesCalled /\ Called.valid = "Y" /\ err' = NoErr
          /\ curr_family # NoObj
          => LET stored == families'[curr_family[1].id] IN
             /\ Called.tag = "HUSB" => stored.husband_id = Called.args
             /\ Called.tag = "WIFE" => stored.wife_id = Called.args
             /\ Called.tag = "CHIL" => /\ stored.children # <<>>
                                       /\ stored.children[Len(stored.children)]
                                            = Called.args
             /\ Called.tag = "MARR" => stored.married
             /\ Called.tag = "DIV" => stored.divorced
       /\ PeopleCalled /\ Called.valid = "Y" /\ err' = NoErr
          /\ curr_person # NoObj
          => LET stored == individuals'[curr_person[1].id] IN
             /\ Called.tag = "NAME" => stored.name = Called.args
             /\ Called.tag = "SEX" => stored.gender = Called.args]_vars


\* the finding the eager check appends for person id
US02Finding(id) ==
    [error_id |-> "INDIVIDUAL", user_story |-> "US02",
     user_id |-> individuals[id].id, name |-> individuals[id].name,
     message |-> "Birth date should occur before marriage of an individual"]

HasBirth(id) == id \in DOMAIN individuals /\ individuals[id].birth_date # NoDate
BirthOf(id) == individuals[id].birth_date[1]

\* the step is a family-builder call with a parseable DATE in MARR context
MarriageDateCalled ==
    /\ FamiliesCalled /\ Called.valid = "Y" /\ Called.tag = "DATE"
    /\ strptime_ok(Called.args)
    /\ FamiliesContext = "MARR"

\* the current family after the call holds date d as its marriage date, in
\* the mapping too when the mapping holds the current family
MarriageDateStored(d) ==
    LET written == [curr_family[1] EXCEPT !.married_date = d] IN
    /\ curr_family' = <<written>>
    /\ families' = IF curr_family_stored
                   THEN [families EXCEPT ![written.id] = written]
                   ELSE families

C7_NotBeforeFails ==
    [][MarriageDateCalled
        => LET d == strptime(Called.args)
               h == curr_family[1].husband_id
               w == curr_family[1].wife_id
           IN  /\ HasBirth(h) /\ HasBirth(w) /\ ~(BirthOf(h) < d[1])
                  => /\ msgs' = Append(msgs, US02Finding(h))
                     /\ UNCHANGED <<families, curr_family>>
               /\ HasBirth(h) /\ BirthOf(h) < d[1]
                  /\ HasBirth(w) /\ ~(BirthOf(w) < d[1])
                  => /\ msgs' = Append(msgs, US02Finding(w))
                     /\ UNCHANGED <<families, curr_family>>]_vars

\* the eager check fails for the called DATE: a spouse it examines was born
\* after the marriage date
EagerCheckFails ==
    LET d == strptime(Called.args)
        h == curr_family[1].husband_id
        w == curr_family[1].wife_id
    IN  /\ MarriageDateCalled
        /\ HasBirth(h)
        /\ \/ d[1] < BirthOf(h)
           \/ HasBirth(w) /\ d[1] < BirthOf(w)

\* C8 as stated: whenever the eager check fails, the marriage date field is
\* unset right after the call.
C8_UnsetAfterFailure ==
    [][EagerCheckFails => curr_family'[1].married_date = NoDate]_vars

\* C8 amended: whenever the eager check fails, the call leaves the marriage
\* date field (and the whole family, current and stored) as it was before
\* the call, so a date accepted earlier under the same MARR stays stored.
C8_UnchangedAfterFailure ==
    [][EagerCheckFails
        => /\ curr_family'[1].married_date = curr_family[1].married_date
           /\ UNCHANGED <<families, curr_family>>]_vars

\* a failed DATE after an accepted one: the finding is there and the family
\* still has the earlier date
C8_Witness ==
    /\ last.who = "families" /\ last.data.tag = "DATE" /\ last.data.valid = "Y"
    /\ err = NoErr /\ f_current_level_1 = "MARR"
    /\ curr_family # NoObj
    /\ HasBirth(curr_family[1].husband_id)
    /\ strptime(last.data.args)[1] < BirthOf(curr_family[1].husband_id)
    /\ msgs # <<>>
    /\ curr_family[1].married_date # NoDate
    /\ curr_family[1].married_date # strptime(last.data.args)

\* the step is a family-builder call with a parseable DATE in DIV context
DivorceDateCalled ==
    /\ FamiliesCalled /\ Called.valid = "Y" /\ Called.tag = "DATE"
    /\ strptime_ok(Called.args)
    /\ FamiliesContext = "DIV"

\* C9: a well-formed, parseable DATE under DIV always sets the current
\* family's divorce date to that date, raises nothing and appends no
\* finding, whatever husband, wife or persons exist.
C9_DivorceDateUnconditional ==
    [][DivorceDateCalled
        => LET written == [curr_family[1] EXCEPT
                              !.divorced_date = strptime(Called.args)]
           IN  /\ err' = NoErr
               /\ msgs' = msgs
               /\ curr_family' = <<written>>
               /\ families' = IF curr_family_stored
                              THEN [families EXCEPT ![written.id] = written]
                              ELSE families]_vars

\* a divorce date earlier than the husband's birth date was stored, with no
\* finding
C9_Witness ==
    /\ last.who = "families" /\ last.data.tag = "DATE" /\ last.data.valid = "Y"
    /\ err = NoErr /\ f_current_level_1 = "DIV"
    /\ curr_family # NoObj /\ curr_family_stored
    /\ HasBirth(curr_family[1].husband_id)
    /\ strptime(last.data.args)[1] < BirthOf(curr_family[1].husband_id)
    /\ families[curr_family[1].id].divorced_date = strptime(last.data.args)
    /\ msgs = <<>>

\* C10: after FAM, MARR and a level-2 DATE for a family with no husband and
\* no wife, the person mapping being empty, the call has succeeded and the
\* date is the family's marriage date.
C10_MarriageDateWithoutSpouses ==
    /\ last.who = "families" /\ last.data.tag = "DATE" /\ last.data.valid = "Y"
    /\ last.data.level = 2 /\ strptime_ok(last.data.args)
    /\ f_current_level_1 = "MARR"
    /\ curr_family # NoObj
    /\ curr_family[1].husband_id = None /\ curr_family[1].wife_id = None
    /\ DOMAIN individuals = {}
    => /\ err = NoErr
       /\ curr_family[1].married_date = strptime(last.data.args)

\* the family, the marriage date and the spouses of the scripted scenario
ScenFamilyId == script[1].args
ScenDate == parse(IF script[3].tag = "DATE" THEN script[3].args ELSE script[5].args)
ScenIngested == script # <<>> /\ nrec = Len(script)

Later(d, e) == d # NoDate /\ e # NoDate /\ d[1] > e[1]

\* C11: with husband @I1@ and wife @I2@ in the person mapping, after FAM,
\* MARR, DATE D1, HUSB, WIFE have been ingested in that order, the husband
\* being born later than D1, the family has marriage date D1 and the sink
\* has no finding.
C11_DateBeforeSpousesAccepted ==
    /\ script \in DateFirstScripts /\ ScenIngested /\ calls = <<>>
    /\ Later(individuals["@I1@"].birth_date, ScenDate)
    => /\ ScenFamilyId \in DOMAIN families
       /\ families[ScenFamilyId].married_date = ScenDate
       /\ msgs = <<>>

\* the finding of the death-before-marriage rule for a spouse of a family
US05Finding(fam_id, spouse_id) ==
    [error_id |-> "FAMILY", user_story |-> "US05", user_id |-> fam_id,
     name |-> "NA",
     message |-> "marriage after death for " \o individuals[spouse_id].id
                 \o " " \o individuals[spouse_id].name]

\* the step is one call of Families.validate()
FamiliesValidateCalled ==
    last'.who = "families.validate" /\ Len(calls') = Len(calls) + 1

\* C12: after FAM, MARR with DATE D2, HUSB @I1@ born later than D2 and WIFE
\* @I2@ dead before D2 have been ingested, a run of family validation
\* appends exactly one finding: the death-before-marriage finding of the
\* family that names the wife.
C12_ScenarioWifeFinding ==
    [][/\ FamiliesValidateCalled /\ script \in DateFirstScripts /\ ScenIngested
       /\ Later(individuals["@I1@"].birth_date, ScenDate)
       /\ Later(ScenDate, individuals["@I2@"].death_date)
       => msgs' = Append(msgs, US05Finding(ScenFamilyId, "@I2@"))]_vars

\* the finding of the death-before-divorce rule for a spouse of a family
US06Finding(fam_id, spouse_id) ==
    [error_id |-> "FAMILY", user_story |-> "US06", user_id |-> fam_id,
     name |-> "NA",
     message |-> "divorce after death for " \o individuals[spouse_id].id
                 \o " " \o individuals[spouse_id].name]

\* the findings the step has appended
NewFindings == SubSeq(msgs', Len(msgs) + 1, Len(msgs'))

CountOf(seq, m) == Cardinality({i \in 1..Len(seq) : seq[i] = m})

\* the spouse id is set, the person has a death date, and it is strictly
\* earlier than the (set) date
DiedBefore(spouse_id, date) ==
    /\ date # NoDate
    /\ spouse_id # None
    /\ spouse_id \in DOMAIN individuals
    /\ individuals[spouse_id].death_date # NoDate
    /\ individuals[spouse_id].death_date[1] < date[1]

\* the step is a call of Families.validate() that returns
FamiliesValidateReturned == FamiliesValidateCalled /\ err' = NoErr

\* the findings of one rule the step has appended for family f
FindingsFor(rule, f) ==
    SelectSeq(NewFindings, LAMBDA m : m.user_story = rule /\ m.user_id = f)

\* C13: a run of family validation that returns has appended, for every
\* family, one FAMILY / US05 finding with the family id as subject and the
\* husband named in the message exactly when the marriage date is set, the
\* husband id is set and the husband died strictly before the marriage
\* date; one for the wife under the same condition, independently; and no
\* other US05 finding (none without a marriage date, without a spouse id,
\* for a living spouse, or for a death on the marriage date).
C13_DeathBeforeMarriage ==
    [][FamiliesValidateReturned
        => \A f \in DOMAIN families :
            LET fam == families[f]
                found == FindingsFor("US05", f)
                h == DiedBefore(fam.husband_id, fam.married_date)
                w == DiedBefore(fam.wife_id, fam.married_date)
            IN  /\ Len(found) = (IF h THEN 1 ELSE 0) + (IF w THEN 1 ELSE 0)
                /\ h => CountOf(found, US05Finding(f, fam.husband_id)) = 1
                /\ w => CountOf(found, US05Finding(f, fam.wife_id)) = 1]_vars

\* one pass over two married families with the same spouses: in @F2@ both
\* died before the marriage and both are reported; for @F10@, married on
\* the day they died, nothing is reported
C13_Witness ==
    /\ calls = <<"families.validate">> /\ err = NoErr
    /\ DOMAIN families = ValFamilyIds
    /\ DiedBefore("@I1@", families["@F2@"].married_date)
    /\ families["@F2@"].husband_id = "@I1@" /\ families["@F2@"].wife_id = "@I2@"
    /\ families["@F10@"].married_date = individuals["@I1@"].death_date
    /\ families["@F2@"].divorced_date = NoDate
    /\ families["@F10@"].divorced_date = NoDate
    /\ families["@F10@"].married_date = individuals["@I2@"].death_date
    /\ msgs = <<US05Finding("@F2@", "@I1@"), US05Finding("@F2@", "@I2@")>>

\* C14: a run of family validation that returns has appended, for every
\* family and each spouse, one FAMILY / US06 finding with the family id as
\* subject exactly when the divorce date is set, the spouse id is set and
\* the spouse died strictly before the divorce date, and no other US06
\* finding; the marriage date plays no part.
C14_DeathBeforeDivorce ==
    [][FamiliesValidateReturned
        => \A f \in DOMAIN families :
            LET fam == families[f]
                found == FindingsFor("US06", f)
                h == DiedBefore(fam.husband_id, fam.divorced_date)
                w == DiedBefore(fam.wife_id, fam.divorced_date)
            IN  /\ Len(found) = (IF h THEN 1 ELSE 0) + (IF w THEN 1 ELSE 0)
                /\ h => CountOf(found, US06Finding(f, fam.husband_id)) = 1
                /\ w => CountOf(found, US06Finding(f, fam.wife_id)) = 1]_vars

\* a family with a divorce date and no marriage date whose husband died
\* before the divorce: the one finding is the husband's US06 finding
C14_Witness ==
    /\ calls = <<"families.validate">> /\ err = NoErr
    /\ DOMAIN families = {"@F2@"}
    /\ families["@F2@"].married_date = NoDate
    /\ families["@F2@"].wife_id = "@I2@"
    /\ DiedBefore("@I1@", families["@F2@"].divorced_date)
    /\ ~DiedBefore("@I2@", families["@F2@"].divorced_date)
    /\ msgs = <<US06Finding("@F2@", "@I1@")>>

\* the place of a family finding in the order of discovery: the rule
\* (US05 first) and the spouse named (husband first)
RuleRank(m) == IF m.user_story = "US05" THEN 1 ELSE 2
SpouseRank(m) ==
    LET fam == families[m.user_id]
        names(id) == /\ id \in DOMAIN individuals
                     /\ m.message \in {US05Finding(m.user_id, id).message,
                                       US06Finding(m.user_id, id).message}
    IN  IF names(fam.husband_id) THEN 1 ELSE 2

\* finding m comes strictly before finding n in the promised order
FindingBefore(m, n) ==
    \/ StrLess(m.user_id, n.user_id)
    \/ /\ m.user_id = n.user_id
       /\ \/ RuleRank(m) < RuleRank(n)
          \/ RuleRank(m) = RuleRank(n) /\ SpouseRank(m) < SpouseRank(n)

\* C15: whatever order the families were inserted in, the findings a run of
\* family validation appends come in ascending order of family identifier;
\* within one family the US05 findings before the US06 findings; within one
\* rule the husband's finding before the wife's.
C15_FamilyFindingOrder ==
    [][FamiliesValidateCalled
        => \A i, j \in 1..Len(NewFindings) :
             i < j => FindingBefore(NewFindings[i], NewFindings[j])]_vars

\* @F2@ was inserted before @F10@; the findings of @F10@ come first, and
\* for each family the marriage findings of husband and wife precede the
\* divorce findings of husband and wife
C15_Witness ==
    /\ calls = <<"families.validate">> /\ err = NoErr
    /\ families_keys = <<"@F2@", "@F10@">>
    /\ DOMAIN individuals = PersonIds
    /\ msgs = <<US05Finding("@F10@", "@I1@"), US05Finding("@F10@", "@I2@"),
               US06Finding("@F10@", "@I1@"), US06Finding("@F10@", "@I2@"),
               US05Finding("@F2@", "@I1@"), US05Finding("@F2@", "@I2@"),
               US06Finding("@F2@", "@I1@"), US06Finding("@F2@", "@I2@")>>

\* the step is one call of People.validate()
PeopleValidateCalled ==
    last'.who = "people.validate" /\ Len(calls') = Len(calls) + 1

\* the step is a call of People.validate() that returns
PeopleValidateReturned == PeopleValidateCalled /\ err' = NoErr

\* the place of a person finding in the fixed order of the rules
PersonRuleRank(m) ==
    CASE m.user_story = "US03" -> 1
      [] m.user_story = "US07" -> 2
      [] m.user_story = "US01"
         /\ m.message = "Birth date should occur before current date" -> 3
      [] m.user_story = "US01"
         /\ m.message = "Death date should occur before current date" -> 4
      [] m.user_story = "US18" -> 5
      [] m.user_story = "US26" -> 6

\* C16: the findings a run of person validation appends come person by
\* person in ascending order of identifier, all findings of one person
\* before any of the next, and for one person in the order of the rules:
\* birth-before-death, age-bound, birth-not-future, death-not-future,
\* sibling-marriage, referential integrity.
C16_PersonFindingOrder ==
    [][PeopleValidateCalled
        => \A i, j \in 1..Len(NewFindings) :
             i < j =>
               LET m == NewFindings[i]
                   n == NewFindings[j]
               IN  \/ StrLess(m.user_id, n.user_id)
                   \/ /\ m.user_id = n.user_id
                      /\ PersonRuleRank(m) <= PersonRuleRank(n)]_vars

\* @I2@ was inserted before @I10@; the finding of @I10@ comes first, then
\* those of @I2@: age, death in the future, sibling marriage and the two
\* missing links
C16_Witness ==
    /\ calls = <<"set_families", "people.validate">> /\ err = NoErr
    /\ individuals_keys = <<"@I2@", "@I10@">>
    /\ Len(msgs) = 6
    /\ [i \in 1..6 |-> msgs[i].user_id] =
         <<"@I10@", "@I2@", "@I2@", "@I2@", "@I2@", "@I2@">>
    /\ [i \in 1..6 |-> msgs[i].user_story] =
         <<"US01", "US07", "US01", "US18", "US26", "US26">>

\* the referential-integrity findings of a person
SpouseLinkFinding(id, fam_id) ==
    [error_id |-> "INDIVIDUAL", user_story |-> "US26", user_id |-> id,
     name |-> individuals[id].name,
     message |-> "corresponding spouse link missing in family " \o fam_id]
ChildLinkFinding(id, fam_id) ==
    [error_id |-> "INDIVIDUAL", user_story |-> "US26", user_id |-> id,
     name |-> individuals[id].name,
     message |-> "corresponding child link missing in family " \o fam_id]

C19_UnwiredFails ==
    [][PeopleValidateCalled /\ p_families = None => err' # NoErr]_vars

\* the finding of the age-bound rule for a person
US07Finding(id) ==
    [error_id |-> "INDIVIDUAL", user_story |-> "US07", user_id |-> id,
     name |-> individuals[id].name, message |-> "Age should be less than 150"]

\* the whole days from birth to death, to the reference instant while alive
ElapsedDays(id) ==
    (IF individuals[id].death_date # NoDate THEN individuals[id].death_date[1]
     ELSE p_current_time[1]) - individuals[id].birth_date[1]

\* days / 365.2425, truncated, is strictly greater than 149
AgeAbove149(id) ==
    /\ individuals[id].birth_date # NoDate
    /\ ElapsedDays(id) * 10000 >= 150 * 3652425

\* the same day and month n calendar years before the instant
CalendarYearsBefore(instant, n) ==
    LET t == Tokens(CHOOSE s \in Nows : parse(s) = instant)
    IN  <<Ordinal(ToInt(t[3]) - n, MonthNum(t[2]), ToInt(t[1]))>>

Alive(id) == individuals[id].death_date = NoDate

\* C20 as stated: a run of person validation appends the age finding of a
\* person exactly when the derived age is above 149; a living person born
\* exactly 150 calendar years before the reference instant gets none, one
\* born a day earlier gets one.
C20_AgeBoundAt150Years ==
    [][PeopleValidateReturned
        => \A id \in DOMAIN individuals :
            LET fired == CountOf(NewFindings, US07Finding(id))
                at150 == CalendarYearsBefore(p_current_time, 150)
                born == individuals[id].birth_date
            IN  /\ fired = (IF AgeAbove149(id) THEN 1 ELSE 0)
                /\ Alive(id) /\ born = at150 => fired = 0
                /\ Alive(id) /\ born = <<at150[1] - 1>> => fired = 1]_vars

\* C20 amended: the age finding is appended exactly when the derived age is
\* above 149, which is from 54787 elapsed days on; a living person born a
\* day before the date 150 calendar years back gets one; a living person
\* born exactly 150 calendar years back gets one when those years hold
\* 54787 days and none when they hold 54786.
C20_AgeBoundByDays ==
    [][PeopleValidateReturned
        => \A id \in DOMAIN individuals :
            LET fired == CountOf(NewFindings, US07Finding(id))
                at150 == CalendarYearsBefore(p_current_time, 150)
                born == individuals[id].birth_date
            IN  /\ fired = (IF AgeAbove149(id) THEN 1 ELSE 0)
                /\ Alive(id) /\ born # NoDate
                   => (fired = 1 <=> p_current_time[1] - born[1] >= 54787)
                /\ Alive(id) /\ born = at150
                   => (fired = 1 <=> p_current_time[1] - at150[1] = 54787)
                /\ Alive(id) /\ born = <<at150[1] - 1>> => fired = 1]_vars

\* at 15 JAN 2026 the living @I2@, born 15 JAN 1876, has the age finding;
\* @I10@, born the same day, has it too
C20_Witness ==
    /\ calls = <<"people.validate">> /\ err = NoErr
    /\ p_current_time = parse("15 JAN 2026")
    /\ DOMAIN individuals = ValPersonIds
    /\ Alive("@I2@")
    /\ individuals["@I2@"].birth_date = CalendarYearsBefore(p_current_time, 150)
    /\ individuals["@I2@"].birth_date = parse("15 JAN 1876")
    /\ individuals["@I10@"].birth_date = parse("15 JAN 1876")
    /\ msgs = <<US07Finding("@I10@"), US07Finding("@I2@")>>

\* the second run has made the calls the first run made
SameCallsAsFirstRun == first_run # <<>> /\ calls = first_run[1].calls

US18Finding(id) ==
    [error_id |-> "INDIVIDUAL", user_story |-> "US18", user_id |-> id,
     name |-> individuals[id].name, message |-> "Siblings should not marry"]

\* the family identifiers that are both in the spouse-of and in the
\* child-of list of the person
SharedFamilies(id) ==
    Range(individuals[id].spouse_of_families)
        \cap Range(individuals[id].child_of_families)

\* C21: a run of person validation that returns has appended, for every
\* person, exactly one US18 finding when the spouse-of and the child-of
\* families of the person share at least one identifier (one or several,
\* with or without other families) and no US18 finding when they share none.
C21_SiblingOnce ==
    [][PeopleValidateReturned
        => \A id \in DOMAIN individuals :
            LET found == FindingsFor("US18", id)
            IN  /\ Len(found) = (IF SharedFamilies(id) # {} THEN 1 ELSE 0)
                /\ CountOf(found, US18Finding(id)) = Len(found)]_vars

\* @I2@ is a spouse of @F2@ and @F10@ and a child of both: one pass, one
\* sibling-marriage finding
C21_Witness ==
    /\ calls = <<"set_families", "people.validate">> /\ err = NoErr
    /\ DOMAIN individuals = {"@I2@"}
    /\ SharedFamilies("@I2@") = {"@F2@", "@F10@"}
    /\ SelectSeq(msgs, LAMBDA m : m.user_story = "US18") = <<US18Finding("@I2@")>>

\* the findings of the birth-not-future and death-not-future rules
US01BirthFinding(id) ==
    [error_id |-> "INDIVIDUAL", user_story |-> "US01", user_id |-> id,
     name |-> individuals[id].name,
     message |-> "Birth date should occur before current date"]
US01DeathFinding(id) ==
    [error_id |-> "INDIVIDUAL", user_story |-> "US01", user_id |-> id,
     name |-> individuals[id].name,
     message |-> "Death date should occur before current date"]

\* C22: a run of person validation appends the birth-not-future finding of
\* a person exactly once when the birth date is set and strictly later than
\* the reference instant and not otherwise, and the same for the death
\* date; the reference instant is the one taken at construction: no ingest
\* call, no validate call, no wiring call and no passing of time changes
\* it.
C22_NotFutureFixedInstant ==
    [][/\ PeopleValidateReturned
           => \A id \in DOMAIN individuals :
                /\ CountOf(NewFindings, US01BirthFinding(id))
                     = (IF Later(individuals[id].birth_date, p_current_time)
                        THEN 1 ELSE 0)
                /\ CountOf(NewFindings, US01DeathFinding(id))
                     = (IF Later(individuals[id].death_date, p_current_time)
                        THEN 1 ELSE 0)
       /\ p_current_time' = p_current_time]_vars

\* the clock has moved on since construction and the person builder has
\* been handed a death on 16 JAN 2026 for @I1@, born that day; the pass
\* reports both dates as later than the instant of construction
C22_Witness ==
    /\ last.who = "people.validate" /\ err = NoErr
    /\ calls = <<"people.validate">>
    /\ clock # p_current_time /\ p_current_time = ConstructedAt
    /\ nrec > 0
    /\ DOMAIN individuals = {"@I1@"}
    /\ individuals["@I1@"].birth_date = parse("16 JAN 2026")
    /\ individuals["@I1@"].death_date = parse("16 JAN 2026")
    /\ msgs = <<US01BirthFinding("@I1@"), US01DeathFinding("@I1@")>>

\* the finding of the birth-before-death rule for a person
US03Finding(id) ==
    [error_id |-> "INDIVIDUAL", user_story |-> "US03", user_id |-> id,
     name |-> individuals[id].name,
     message |-> "Birth date should occur before death of an individual"]

\* C23: a run of person validation that returns has appended, for every
\* person, exactly one US03 finding when the birth date and the death date
\* are both set and the death date is strictly earlier than the birth date,
\* and no US03 finding when a date is unset or the death date is equal to
\* or later than the birth date.
C23_BirthBeforeDeath ==
    [][PeopleValidateReturned
        => \A id \in DOMAIN individuals :
            LET found == FindingsFor("US03", id)
                fails == Later(individuals[id].birth_date,
                               individuals[id].death_date)
            IN  /\ Len(found) = (IF fails THEN 1 ELSE 0)
                /\ CountOf(found, US03Finding(id)) = Len(found)]_vars

\* @I2@, born 15 JAN 1876 and dead 1 JAN 1870, is reported; @I10@, without
\* a death date, is not
C23_Witness ==
    /\ calls = <<"people.validate">> /\ err = NoErr
    /\ DOMAIN individuals = ValPersonIds
    /\ individuals["@I2@"].birth_date = parse("15 JAN 1876")
    /\ individuals["@I2@"].death_date = parse("1 JAN 1870")
    /\ individuals["@I10@"].birth_date = parse("15 JAN 1876")
    /\ SelectSeq(msgs, LAMBDA m : m.user_story = "US03") = <<US03Finding("@I2@")>>

\* the sink after the step begins with the sink before the step
SinkExtended ==
    /\ Len(msgs') >= Len(msgs)
    /\ SubSeq(msgs', 1, Len(msgs)) = msgs

\* C24: a run of family validation or of person validation, returning or
\* raising, leaves both mappings (their keys, the order of the keys and
\* every field of every person and family), the current person and family
\* of the builders, their contexts, the wiring and the reference instant as
\* they were; the sink after the run is the sink before it followed by the
\* findings of the run.
C24_ValidateFrame ==
    [][FamiliesValidateCalled \/ PeopleValidateCalled
        => /\ individuals' = individuals /\ individuals_keys' = individuals_keys
           /\ families' = families /\ families_keys' = families_keys
           /\ curr_person' = curr_person /\ curr_family' = curr_family
           /\ curr_person_stored' = curr_person_stored
           /\ curr_family_stored' = curr_family_stored
           /\ p_current_level_1' = p_current_level_1
           /\ f_current_level_1' = f_current_level_1
           /\ p_families' = p_families /\ p_current_time' = p_current_time
           /\ SinkExtended]_vars

\* @I1@, born 16 JAN 2026 and dead 1 JAN 2000, is the husband of @F1@,
\* divorced 15 JUN 2000: the family pass has appended the divorce finding,
\* the person pass the death before birth and the future birth behind it;
\* @I1@ and @F1@ are as they were built
C24_Witness ==
    /\ calls = <<"families.validate", "people.validate">> /\ err = NoErr
    /\ DOMAIN individuals = {"@I1@"} /\ DOMAIN families = {"@F1@"}
    /\ individuals["@I1@"] =
         DatedPerson("@I1@", "16 JAN 2026", "1 JAN 2000", <<>>, <<>>)
    /\ families["@F1@"] =
         [NewFamily("@F1@") EXCEPT !.husband_id = "@I1@", !.divorced = TRUE,
                                   !.divorced_date = parse("15 JUN 2000")]
    /\ msgs = <<US06Finding("@F1@", "@I1@"), US03Finding("@I1@"),
                US01BirthFinding("@I1@")>>

\* C25: whatever call is made (an ingest call of either builder, a
\* validation pass, the wiring) and whether it returns or raises, the sink
\* after the call begins with the whole sink before the call, finding by
\* finding in the same order: nothing is removed, reordered or altered.
C25_SinkAppendOnly == [][SinkExtended]_vars

\* a person pass, then the ingestion of a marriage date earlier than the
\* birth of husband @I1@, then a second person pass: each has appended
\* behind what was there
C25_Witness ==
    /\ calls = <<"people.validate", "people.validate">> /\ err = NoErr
    /\ nrec = 4
    /\ DOMAIN individuals = {"@I1@"}
    /\ individuals["@I1@"].death_date = NoDate
    /\ msgs = <<US01BirthFinding("@I1@"), US02Finding("@I1@"),
                US01BirthFinding("@I1@")>>

\* C26: over the mappings the builders have produced from well-formed
\* records with parseable dates, a run of family validation, and a run of
\* person validation with the family mapping wired in, returns without
\* raising, also when the husband or wife id of a family is no key of the
\* person mapping.
C26_ValidationNeverRaises ==
    [][FamiliesValidateCalled \/ (PeopleValidateCalled /\ p_families # None)
        => err' = NoErr]_vars

\* the finding the tests expect for a parent dead before the birth of a
\* child of the family
ParentDeathMessage(parent_id) ==
    "parent death before child birth for " \o individuals[parent_id].id
        \o " " \o individuals[parent_id].name

\* the parent is a person who died more than the given number of days
\* before the birth of a child of the family
DiedBeforeChild(fam, parent_id, days) ==
    /\ parent_id # None /\ parent_id \in DOMAIN individuals
    /\ individuals[parent_id].death_date # NoDate
    /\ \E c \in Range(fam.children) :
         /\ c \in DOMAIN individuals
         /\ individuals[c].birth_date # NoDate
         /\ individuals[c].birth_date[1]
              > individuals[parent_id].death_date[1] + days

\* nine months, in days
NineMonths == 275

\* C27: a run of family validation has appended, for every family, a
\* FAMILY finding naming the wife when she died before the birth of a
\* child of the family and one naming the husband when he died more than
\* nine months before it.
C27_ParentDeathBeforeChildBirth ==
    [][FamiliesValidateReturned
        => \A f \in DOMAIN families :
            LET fam == families[f]
                reported(parent_id) ==
                    \E i \in 1..Len(NewFindings) :
                        /\ NewFindings[i].error_id = "FAMILY"
                        /\ NewFindings[i].user_id = f
                        /\ NewFindings[i].message = ParentDeathMessage(parent_id)
            IN  /\ DiedBeforeChild(fam, fam.husband_id, NineMonths)
                    => reported(fam.husband_id)
                /\ DiedBeforeChild(fam, fam.wife_id, 0)
                    => reported(fam.wife_id)]_vars

\* the call before the step was an ingest call of the builder that returned,
\* with a level-0 record of a kind other than the given one
TopLevelOtherThan(who, tag) ==
    /\ last.who = who /\ err = NoErr
    /\ last.data.level = 0 /\ last.data.tag # tag

\* C28: when the person builder has just ingested a level-0 record other
\* than INDI, the subordinate record (level above 0) it is handed next
\* changes no person; when the family builder has just ingested a level-0
\* record other than FAM, the subordinate record it is handed next changes
\* no family.
C28_TopLevelClosesEntity ==
    [][/\ PeopleCalled /\ Called.level > 0 /\ TopLevelOtherThan("people", "INDI")
           => individuals' = individuals
       /\ FamiliesCalled /\ Called.level > 0 /\ TopLevelOtherThan("families", "FAM")
           => families' = families]_vars

\* C29: in every state of the builders, an ingest call of either builder
\* with a well-formed record whose argument, if the record is a DATE,
\* conforms to the date grammar returns without raising.
C29_WellFormedIngestReturns ==
    [][/\ PeopleCalled \/ FamiliesCalled
       /\ Called.valid = "Y"
       /\ Called.tag = "DATE" => strptime_ok(Called.args)
       => err' = NoErr]_vars

\* C30: an ingest call of either builder with a DATE record whose argument
\* does not conform to the date grammar raises, whatever the context in
\* force.
C30_BadDateFails ==
    [][/\ PeopleCalled \/ FamiliesCalled
       /\ Called.tag = "DATE" /\ ~strptime_ok(Called.args)
       => err' # NoErr]_vars

\* C31: a well-formed record whose tag the builder does not recognize
\* raises nothing and leaves the builder's mapping (keys and entities) as it
\* was; the family builder adds a key only on a FAM record, and then the
\* argument of that record, so that from the empty mapping of construction
\* the key set is the set of arguments of the FAM records ingested; every
\* family is stored under its own id.
C31_UnrecognizedIgnored ==
    [][/\ PeopleCalled /\ Called.valid = "Y" /\ Called.tag \notin PeopleTags
          => err' = NoErr /\ individuals' = individuals
       /\ FamiliesCalled /\ Called.valid = "Y" /\ Called.tag \notin FamiliesTags
          => err' = NoErr /\ families' = families
       /\ FamiliesCalled
          => /\ DOMAIN families' =
                  IF Called.valid = "Y" /\ Called.tag = "FAM"
                  THEN DOMAIN families \cup {Called.args}
                  ELSE DOMAIN families
             /\ \A k \in DOMAIN families' : families'[k].id = k]_vars

\* two FAM records have stored @F1@ and @F2@; the level-0 INDI record the
\* family builder was handed next has raised nothing and added no family
C31_Witness ==
    /\ last.who = "families" /\ last.data.tag = "INDI" /\ last.data.valid = "Y"
    /\ last.data.level = 0
    /\ err = NoErr
    /\ families_keys = <<"@F2@", "@F1@">>
    /\ DOMAIN families = {"@F1@", "@F2@"}
    /\ \A k \in DOMAIN families : families[k] = NewFamily(k)

\* the step is a family-builder call with a well-formed record that returns
\* while a family is current
FamilyRecordIngested ==
    /\ FamiliesCalled /\ Called.valid = "Y" /\ err' = NoErr
    /\ curr_family # NoObj

\* C32: a CHIL record appends its argument behind the children of the
\* current family, whether or not the argument is already among them; a
\* HUSB (WIFE) record makes its argument the husband (wife) id; no other
\* record but FAM, which makes a new family with no children and no
\* spouses current, changes the children or the spouse ids of the current
\* family; and the children and spouse ids of a family in the mapping
\* change only by such a record while that family is the current one.
C32_ChildrenAndSpouses ==
    [][/\ FamilyRecordIngested /\ Called.tag # "FAM"
          => LET before == curr_family[1]
                 after == curr_family'[1]
             IN  /\ after.children =
                      IF Called.tag = "CHIL"
                      THEN Append(before.children, Called.args)
                      ELSE before.children
                 /\ after.husband_id =
                      IF Called.tag = "HUSB" THEN Called.args
                      ELSE before.husband_id
                 /\ after.wife_id =
                      IF Called.tag = "WIFE" THEN Called.args
                      ELSE before.wife_id
                 /\ curr_family_stored => families'[after.id] = after
       /\ FamiliesCalled
          => \A k \in DOMAIN families :
                \/ /\ families'[k].children = families[k].children
                   /\ families'[k].husband_id = families[k].husband_id
                   /\ families'[k].wife_id = families[k].wife_id
                \/ /\ curr_family # NoObj /\ curr_family_stored
                   /\ curr_family[1].id = k
                   /\ Called.tag \in {"CHIL", "HUSB", "WIFE"}]_vars

\* three CHIL records for @F1@: the children are in the order of the
\* records, @I2@ twice
C32_Witness ==
    /\ last.who = "families" /\ last.data.tag = "CHIL" /\ err = NoErr
    /\ curr_family # NoObj /\ curr_family_stored
    /\ DOMAIN families = {"@F1@"}
    /\ families["@F1@"].children = <<"@I2@", "@I1@", "@I2@">>

\* a second HUSB record for @F2@ has replaced the husband of the first
C32_WitnessHusband ==
    /\ last.who = "families" /\ last.data.tag = "HUSB" /\ err = NoErr
    /\ last.data.args = "@I2@"
    /\ nrec = 3
    /\ DOMAIN families = {"@F2@"}
    /\ families["@F2@"].husband_id = "@I2@"

\* C33: a MARR (DIV) record sets the married (divorced) flag of the current
\* family at once, with no DATE needed, and a flag that is true stays true:
\* no family-builder call makes it false on the current family (unless FAM
\* changes which family is current) or on any family in the mapping, and
\* no person-builder call touches the families.
C33_FlagsSetAndKept ==
    [][/\ FamilyRecordIngested /\ Called.tag = "MARR"
          => /\ curr_family'[1].married
             /\ curr_family_stored => families'[curr_family[1].id].married
       /\ FamilyRecordIngested /\ Called.tag = "DIV"
          => /\ curr_family'[1].divorced
             /\ curr_family_stored => families'[curr_family[1].id].divorced
       /\ FamilyRecordIngested /\ Called.tag # "FAM"
          => /\ curr_family[1].married => curr_family'[1].married
             /\ curr_family[1].divorced => curr_family'[1].divorced
       /\ \A k \in DOMAIN families :
             /\ k \in DOMAIN families'
             /\ families[k].married => families'[k].married
             /\ families[k].divorced => families'[k].divorced]_vars

\* @F1@ got MARR and no DATE; DIV and a HUSB record followed, and the
\* married flag is still true with no marriage date stored
C33_Witness ==
    /\ last.who = "families" /\ last.data.tag = "HUSB" /\ err = NoErr
    /\ nrec = 4
    /\ curr_family # NoObj /\ curr_family_stored
    /\ DOMAIN families = {"@F1@"}
    /\ families["@F1@"].married /\ families["@F1@"].divorced
    /\ families["@F1@"].married_date = NoDate
    /\ families["@F1@"].husband_id = "@I1@"

\* the person is on record with a birth date later than the date
BornAfter(id, date) ==
    /\ id \in DOMAIN individuals
    /\ Later(individuals[id].birth_date, date)

\* C34: in every state, a family in the mapping that has a marriage date
\* stored has no husband and no wife on record who was born after that
\* date.
C34_StoredMarriageNotBeforeBirths ==
    \A k \in DOMAIN families :
       families[k].married_date # NoDate
       => /\ ~BornAfter(families[k].husband_id, families[k].married_date)
          /\ ~BornAfter(families[k].wife_id, families[k].married_date)

\* C35: a MARR record leaves the marriage date of the current family as it
\* was, and a DIV record leaves its divorce date as it was.
C35_TagKeepsStoredDate ==
    [][/\ FamilyRecordIngested /\ Called.tag = "MARR"
          => curr_family'[1].married_date = curr_family[1].married_date
       /\ FamilyRecordIngested /\ Called.tag = "DIV"
          => curr_family'[1].divorced_date = curr_family[1].divorced_date]_vars

\* the MARR half of C35 alone
C35_MarrKeepsStoredDate ==
    [][FamilyRecordIngested /\ Called.tag = "MARR"
          => curr_family'[1].married_date = curr_family[1].married_date]_vars

\* C36: a family-builder call leaves every person as it was and every
\* family of the mapping other than the one current after the call; a
\* person-builder call leaves every family as it was and every person of
\* the mapping other than the one current after the call.
C36_OnlyCurrentEntityChanges ==
    [][/\ FamiliesCalled
          => /\ individuals' = individuals
             /\ \A k \in DOMAIN families :
                   (curr_family' = NoObj \/ curr_family'[1].id # k)
                   => k \in DOMAIN families' /\ families'[k] = families[k]
       /\ PeopleCalled
          => /\ families' = families
             /\ \A k \in DOMAIN individuals :
                   (curr_person' = NoObj \/ curr_person'[1].id # k)
                   => k \in DOMAIN individuals' /\ individuals'[k] = individuals[k]]_vars

\* @F1@ has husband @I1@; @F2@ is current and has just got husband @I2@
C36_Witness ==
    /\ last.who = "families" /\ last.data.tag = "HUSB" /\ err = NoErr
    /\ DOMAIN families = {"@F1@", "@F2@"}
    /\ curr_family # NoObj /\ curr_family_stored /\ curr_family[1].id = "@F2@"
    /\ families["@F1@"].husband_id = "@I1@"
    /\ families["@F2@"].husband_id = "@I2@"

\* the findings of one class, in the order the sink holds them: the family
\* pass reports under "FAMILY", the person pass under "INDIVIDUAL"
OfClass(sink, class) ==
    LET IsOfClass(m) == m.error_id = class IN SelectSeq(sink, IsOfClass)

FamilyThenPerson == <<"families.validate", "people.validate">>
PersonThenFamily == <<"people.validate", "families.validate">>

\* the two runs made the two passes in opposite orders, with the families
\* wired first in both or in neither
OppositePassOrders ==
    /\ first_run # <<>>
    /\ \E wired \in {<<>>, <<"set_families">>} :
          {first_run[1].calls, calls}
              = {wired \o FamilyThenPerson, wired \o PersonThenFamily}

-----------------------------------------------------------------------------
(* Specification: one BIRT, DEAT, MARR or DIV tag and the records under it *)

DateTags == {"BIRT", "DEAT", "MARR", "DIV"}

\* records at level 2 or deeper: DATE with a good or an unparseable
\* argument, and a tag neither builder knows
DeepRecords ==
    {Rec(2, "DATE", d, "Y") : d \in GoodDates \cup BadDates}
    \cup {Rec(3, "DATE", "1 JAN 2000", "Y"),
          Rec(2, "BLAH", "sdfsd", "Y"), Rec(3, "BLAH", "sdfsd", "Y")}

\* the records that open the entity and the tag
DateHeader(tag) ==
    IF tag \in {"BIRT", "DEAT"}
    THEN <<Rec(0, "INDI", "@I1@", "Y"), Rec(1, tag, "", "Y")>>
    ELSE <<Rec(0, "FAM", "@F1@", "Y"), Rec(1, "HUSB", "@I1@", "Y"),
           Rec(1, "WIFE", "@I2@", "Y"), Rec(1, tag, "", "Y")>>

DateScripts ==
    {DateHeader(tag) \o deep :
        tag \in DateTags, deep \in [1..MaxDeepRecords -> DeepRecords]}

ForPeople(sc) == sc[1].tag = "INDI"

\* a person script starts from the empty mapping; a family script finds
\* husband and wife built, each born on one of the dates
InitDates ==
    /\ script \in DateScripts
    /\ \/ ForPeople(script) /\ individuals = EmptyMap
       \/ /\ ~ForPeople(script)
          /\ \E b \in [PersonIds -> GoodDates] :
                individuals = [id \in PersonIds |-> BuiltPerson(id, b[id])]
    /\ individuals_keys = IF ForPeople(script) THEN <<>> ELSE <<"@I1@", "@I2@">>
    /\ curr_person = IF ForPeople(script) THEN NoObj ELSE <<individuals["@I2@"]>>
    /\ curr_person_stored = ~ForPeople(script)
    /\ p_current_level_1 = None
    /\ families = EmptyMap
    /\ families_keys = <<>>
    /\ curr_family = NoObj
    /\ curr_family_stored = FALSE
    /\ f_current_level_1 = None
    /\ msgs = <<>>
    /\ err = NoErr
    /\ last = NoCall
    /\ nrec = 0
    /\ p_families = None
    /\ p_current_time = ConstructedAt
    /\ clock = ConstructedAt
    /\ calls = <<>>
    /\ first_run = <<>>

DatePeopleStep ==
    /\ nrec < Len(script) /\ ForPeople(script)
    /\ PeopleIngest(script[nrec + 1])

DateFamiliesStep ==
    /\ nrec < Len(script) /\ ~ForPeople(script)
    /\ FamiliesIngest(script[nrec + 1])

NextDates == DatePeopleStep \/ DateFamiliesStep

SpecDates == InitDates /\ [][NextDates]_vars

\* the tag of the script and the records ingested under it so far
ScriptTag == script[Len(script) - MaxDeepRecords].tag
HeaderIngested == nrec >= Len(script) - MaxDeepRecords
DeepIngested == SubSeq(script, Len(script) - MaxDeepRecords + 1, nrec)

\* a DATE argument the tag takes: one that parses and, under MARR, is not
\* before the birth of the husband or of the wife
AcceptedUnder(tag, args) ==
    /\ strptime_ok(args)
    /\ tag = "MARR" => /\ ~Later(individuals["@I1@"].birth_date, strptime(args))
                       /\ ~Later(individuals["@I2@"].birth_date, strptime(args))

\* the date of the last DATE record among recs that the tag takes
LastAccepted(tag, recs) ==
    LET at == {i \in 1..Len(recs) :
                  recs[i].tag = "DATE" /\ AcceptedUnder(tag, recs[i].args)}
    IN  IF at = {} THEN NoDate
        ELSE strptime(recs[CHOOSE i \in at : \A j \in at : j <= i].args)

\* the context the builder of the script remembers, and the field its tag
\* stands for
ScriptContext ==
    IF ForPeople(script) THEN p_current_level_1 ELSE f_current_level_1
ScriptField ==
    CASE ScriptTag = "BIRT" -> individuals["@I1@"].birth_date
      [] ScriptTag = "DEAT" -> individuals["@I1@"].death_date
      [] ScriptTag = "MARR" -> families["@F1@"].married_date
      [] ScriptTag = "DIV" -> families["@F1@"].divorced_date

\* C38: after a BIRT, DEAT, MARR or DIV tag and any number of records at
\* level 2 or deeper (DATE records, good or not, and unrecognized tags, in
\* any order), the remembered context is still that tag and the tag's field
\* holds the date of the last DATE record the builder accepted, or nothing
\* if it accepted none.
C38_DatesUnderOneTag ==
    HeaderIngested
    => /\ ScriptContext = ScriptTag
       /\ ScriptField = LastAccepted(ScriptTag, DeepIngested)

\* BIRT, then DATE 1 JAN 2000, an unrecognized record at level 3 and DATE
\* 15 JUN 2000: the birth date is the second date
C38_Witness ==
    /\ script = DateHeader("BIRT")
                  \o <<Rec(2, "DATE", "1 JAN 2000", "Y"),
                       Rec(3, "BLAH", "sdfsd", "Y"),
                       Rec(2, "DATE", "15 JUN 2000", "Y")>>
    /\ nrec = Len(script)
    /\ p_current_level_1 = "BIRT"
    /\ individuals["@I1@"].birth_date = strptime("15 JUN 2000")

\* MARR with husband and wife born 15 JUN 2000: DATE 15 JUN 2000 accepted,
\* an unrecognized record, DATE 1 JAN 2000 refused with a finding; the
\* marriage date is the accepted one
C38_WitnessMarriage ==
    /\ script = DateHeader("MARR")
                  \o <<Rec(2, "DATE", "15 JUN 2000", "Y"),
                       Rec(2, "BLAH", "sdfsd", "Y"),
                       Rec(3, "DATE", "1 JAN 2000", "Y")>>
    /\ nrec = Len(script)
    /\ Len(msgs) = 1
    /\ f_current_level_1 = "MARR"
    /\ families["@F1@"].married_date = strptime("15 JUN 2000")

====
